---- MODULE Spec2Model ----
(***************************************************************************)
(* Compositing core of the sebooth photobooth.                             *)
(*                                                                         *)
(*  - the video filter-graph builder of the IPC handler                    *)
(*    system:save-session-locally (src/src/main/ipc/system.ipc.ts);        *)
(*  - the still compositor generateCompositeFromPhotos, the per-slot       *)
(*    videoUrls list and the live preview of PostProcessing.tsx;           *)
(*  - ImageProcessor.composite (src/unnamed/part_010);                     *)
(*  - the capture session page (src/unnamed/part_005) on top of the        *)
(*    session store (src/unnamed/part_004).                                *)
(*                                                                         *)
(* Lengths are whole pixels.  Quantities the code computes in floating     *)
(* point (the rotated bounding box) are kept in thousandths of a pixel.    *)
(***************************************************************************)
EXTENDS Integers, Sequences, FiniteSets, TLC

VARIABLES
    pc,             \* position of the operation in progress ("idle": none)
    params,         \* arguments of the system:save-session-locally call
    validInputs,    \* system.ipc.ts:299
    inputs,         \* inputs added to the ffmpeg command, in order
    filterGraph,    \* system.ipc.ts:327, one record per filter chain
    savedFiles,     \* system.ipc.ts:243
    engineRuns,     \* the ffmpeg commands run by the call, with their options
    engineError,    \* the err handed to .on('error') of the strip composite
    response,       \* what the handler returns
    geomSlot,       \* the slot handed to the overlay placement
    geomOut,        \* the placement computed for geomSlot
    frame,          \* sessionFrame / currentFrame of the renderer pages
    photos,         \* photos of useSessionStore
    canvasOps,      \* what generateCompositeFromPhotos did to the canvas
    compositeDataUrl, \* PostProcessing.tsx:40
    selectedFilter, \* PostProcessing.tsx:36
    error,          \* PostProcessing.tsx:41
    printed,        \* what handlePrint handed to the printer
    uploads,        \* what the page handed to uploadFile, in order
    videoUrls,      \* PostProcessing.tsx:339
    previewVideos,  \* the <video> elements of the live preview, per slot
    sharpIn,        \* the photos and the frame handed to image:composite
    photoLayers,    \* ImageProcessor.composite: part_010:44
    sharpOut,       \* what image:composite returns
    config,         \* useAppConfig: timerEnabled and countdownDuration
    captureState,   \* part_005:1172
    countdown,      \* part_005:1173
    currentSlotIndex, \* part_005:1174
    slotIndex,      \* the argument of the startCountdown in progress
    fitIn,          \* an image and a slot handed to the cover fit
    fitOut,         \* the draw size the cover fit computed for fitIn
    gifClock,       \* Date.now() as system:generate-hq-gif reads it
    gifJobs,        \* the system:generate-hq-gif calls, by order of invocation
    tempFiles,      \* the files under userData/temp
    builds,         \* the composite commands the main process has built so far
    layers,         \* the layer each compositor makes of geomSlot
    currentSession, \* currentSession of useSessionStore
    storeCall,      \* the last call of useSessionStore, with the photos it found
    timer,          \* the SessionTimer of a page: its props, its state and its interval
    frames,         \* frames of useFrameStore
    activeFrame,    \* activeFrame of useFrameStore
    history,        \* history of useFrameStore
    future,         \* future of useFrameStore
    uuid,           \* the number of ids uuidv4 has made
    storeCalls      \* the calls made on useFrameStore, each with the state it found

videoVars == <<params, validInputs, inputs, filterGraph, savedFiles, engineRuns,
              engineError, response>>
geomVars == <<geomSlot, geomOut>>
storeVars == <<frame, photos>>
postVars == <<canvasOps, compositeDataUrl, selectedFilter, error, printed, uploads,
              videoUrls, previewVideos>>
sharpVars == <<sharpIn, photoLayers, sharpOut>>
captureVars == <<config, captureState, countdown, currentSlotIndex, slotIndex>>
fitVars == <<fitIn, fitOut>>

gifVars == <<gifClock, gifJobs, tempFiles>>

buildVars == <<builds>>

contractVars == <<layers>>

sessionVars == <<currentSession, storeCall>>

timerVars == <<timer>>

frameStoreVars == <<frames, activeFrame, history, future, uuid, storeCalls>>

vars == <<pc, videoVars, geomVars, storeVars, postVars, sharpVars, captureVars, fitVars, gifVars, buildVars, contractVars, sessionVars, timerVars, frameStoreVars>>

\* What each part of the program leaves alone.
outsideVideo == <<geomVars, storeVars, postVars, sharpVars, captureVars, fitVars, gifVars, buildVars, contractVars, sessionVars, timerVars, frameStoreVars>>
outsideGeom == <<videoVars, storeVars, postVars, sharpVars, captureVars, fitVars, gifVars, buildVars, contractVars, sessionVars, timerVars, frameStoreVars>>
outsidePost == <<videoVars, geomVars, sharpVars, captureVars, fitVars, gifVars, buildVars, contractVars, sessionVars, timerVars, frameStoreVars>>
outsideSharp == <<videoVars, geomVars, storeVars, postVars, captureVars, fitVars, gifVars, buildVars, contractVars, sessionVars, timerVars, frameStoreVars>>
outsideCapture == <<videoVars, geomVars, postVars, sharpVars, fitVars, gifVars, buildVars, contractVars, sessionVars, timerVars, frameStoreVars>>
outsideFit == <<videoVars, geomVars, storeVars, postVars, sharpVars, captureVars, gifVars, buildVars, contractVars, sessionVars, timerVars, frameStoreVars>>
outsideGif == <<videoVars, geomVars, storeVars, postVars, sharpVars, captureVars, fitVars, buildVars, contractVars, sessionVars, timerVars, frameStoreVars>>
outsideBuild == <<videoVars, geomVars, storeVars, postVars, sharpVars, captureVars, fitVars, gifVars, contractVars, sessionVars, timerVars, frameStoreVars>>
outsideContract == <<videoVars, geomVars, storeVars, postVars, sharpVars, captureVars, fitVars, gifVars, buildVars, sessionVars, timerVars, frameStoreVars>>
outsideSession == <<videoVars, geomVars, postVars, sharpVars, captureVars, fitVars, gifVars, buildVars, contractVars, timerVars, frameStoreVars>>
outsideTimer == <<videoVars, geomVars, storeVars, postVars, sharpVars, captureVars, fitVars, gifVars, buildVars, contractVars, sessionVars, frameStoreVars>>
outsideFrameStore == <<videoVars, geomVars, storeVars, postVars, sharpVars, captureVars, fitVars, gifVars, buildVars, contractVars, sessionVars, timerVars>>

\* ---------------------------------------------------------------- bounds

MaxVideos == 3
MaxSlots == 3
MaxDim == 4
MaxCountdown == 2
MaxPhotos == 2
MaxSide == 9
MaxGifJobs == 2
MaxGifFrames == 2
MaxClock == 1
MaxBuilds == 3
MaxSessionPhotos == 3
MaxDuration == 5
MaxTimeouts == 2
MaxCalls == 4
MaxStoreSlots == 3
MaxStoreFrames == 1

\* ------------------------------------------------------------ the values

None == [none |-> TRUE]

\* Sequences over S of length 0..n.
SeqUpTo(S, n) == UNION {[1..k -> S] : k \in 0..n}

Range(s) == {s[i] : i \in 1..Len(s)}

Abs(n) == IF n < 0 THEN -n ELSE n

\* The rotation angles the geometry is tabulated for (degrees).
Angles == {0, 15, -15, 45, 90, -90, 135, 180, 270}

\* ------------------------------------------------------------- geometry

\* const rot = input.slot.rotation || 0: the field is optional.
rotOf(slot) == IF "rotation" \in DOMAIN slot THEN slot.rotation ELSE 0

\* Math.abs(Math.cos(rot * Math.PI / 180)), in thousandths.
AbsCosMilli(rot) ==
    CASE rot \in {0, 180} -> 1000
      [] rot \in {90, -90, 270} -> 0
      [] rot \in {15, -15} -> 966
      [] rot \in {45, 135} -> 707

\* Math.abs(Math.sin(rot * Math.PI / 180)), in thousandths.
AbsSinMilli(rot) ==
    CASE rot \in {0, 180} -> 0
      [] rot \in {90, -90, 270} -> 1000
      [] rot \in {15, -15} -> 259
      [] rot \in {45, 135} -> 707

\* Math.round of a value given in 1/2000 pixel: the nearest integer, a tie
\* going up.
MathRound2000(v) == (v + 1000) \div 2000

\* The width of the box taken as one hypotenuse, Math.hypot(w*cos, h*sin),
\* to the whole pixel.
wRotMilli_Hypot(slot) ==
    LET a == (slot.width * AbsCosMilli(rotOf(slot))) \div 1000
        b == (slot.height * AbsSinMilli(rotOf(slot))) \div 1000
    IN  1000 * (CHOOSE n \in 0..(a + b) :
                    n * n <= a * a + b * b /\ a * a + b * b < (n + 1) * (n + 1))

\* wRot of system.ipc.ts:354, in thousandths of a pixel.
wRotMilli(slot) ==
    slot.width * AbsCosMilli(rotOf(slot)) + slot.height * AbsSinMilli(rotOf(slot))

\* hRot of system.ipc.ts:355, in thousandths of a pixel.
hRotMilli(slot) ==
    slot.width * AbsSinMilli(rotOf(slot)) + slot.height * AbsCosMilli(rotOf(slot))

\* The ow and oh options of the rotate stage (system.ipc.ts:338), each the
\* sum of iw times one factor and ih times another:
\* ow='iw*abs(cos(r))+ih*abs(sin(r))', oh='iw*abs(sin(r))+ih*abs(cos(r))'.
RotateOw == [iw |-> "abs(cos)", ih |-> "abs(sin)"]
RotateOh == [iw |-> "abs(sin)", ih |-> "abs(cos)"]

\* The value of a factor of such an expression, in thousandths.
FactorMilli(f, rot) == IF f = "abs(cos)" THEN AbsCosMilli(rot) ELSE AbsSinMilli(rot)

\* The size an expression declares for the input the rotate stage is given,
\* the w x h output of crop=w:h (system.ipc.ts:340-341), in thousandths.
DeclaredMilli(expr, slot) ==
    slot.width * FactorMilli(expr.iw, rotOf(slot))
        + slot.height * FactorMilli(expr.ih, rotOf(slot))

\* rotFilter of system.ipc.ts:338: empty when rot is 0, else the stage with
\* the output size it declares.
rotFilter(slot) ==
    IF rotOf(slot) # 0
    THEN [ow |-> RotateOw, oh |-> RotateOh,
          owMilli |-> DeclaredMilli(RotateOw, slot),
          ohMilli |-> DeclaredMilli(RotateOh, slot)]
    ELSE None

\* The offset taken as the whole growth of the box, not half of it.
offsetX2000_NotHalved(slot) == 2 * (wRotMilli(slot) - 1000 * slot.width)

\* offsetX = (wRot - w) / 2, in 1/2000 pixel.
offsetX2000(slot) == wRotMilli(slot) - 1000 * slot.width

\* offsetY = (hRot - h) / 2, in 1/2000 pixel.
offsetY2000(slot) == hRotMilli(slot) - 1000 * slot.height

\* The angles whose sine or cosine is 0 in exact arithmetic.
AxisAligned(rot) == rot \in {0, 90, -90, 180, 270}

\* For those angles the doubles are followed exactly.  rot * Math.PI / 180
\* is not the exact angle, so Math.cos of it (Math.sin for 180) is not 0:
\* 6.123233995736766e-17 for 90 and -90, 1.8369701987210297e-16 for 270,
\* 1.2246467991473532e-16 for 180; the other of the two is exactly 1.  Here
\* in units of 2^-70.
TinyUnits(rot) ==
    CASE rot \in {90, -90} -> 72290
      [] rot = 270 -> 216871
      [] rot = 180 -> 144581
      [] OTHER -> 0

RECURSIVE FloorLog2(_)
FloorLog2(n) == IF n < 2 THEN 0 ELSE 1 + FloorLog2(n \div 2)

RECURSIVE Pow2(_)
Pow2(k) == IF k = 0 THEN 1 ELSE 2 * Pow2(k - 1)

\* The distance between neighbouring doubles in [2^e, 2^(e+1)), in units of
\* 2^-70: 2^(e-52).
UlpUnits(e) == Pow2(e + 18)

\* The multiple of u nearest to a, a tie going to the even multiple.
RoundHalfEven(a, u) ==
    LET q == a \div u
        r == a % u
    IN  IF 2 * r > u \/ (2 * r = u /\ q % 2 = 1) THEN (q + 1) * u ELSE q * u

\* main * 1 + other * tiny as a double: main plus what is left of the small
\* term after rounding to the doubles around main (units of 2^-70).
BoxResidue(main, other, rot) ==
    RoundHalfEven(other * TinyUnits(rot), UlpUnits(FloorLog2(main)))

\* What wRot and hRot exceed their exact values by, in units of 2^-70 pixel
\* (not followed for the angles that are not axis-aligned).
wRotResidue(slot) ==
    IF ~AxisAligned(rotOf(slot)) THEN 0
    ELSE IF rotOf(slot) \in {0, 180}
         THEN BoxResidue(slot.width, slot.height, rotOf(slot))
         ELSE BoxResidue(slot.height, slot.width, rotOf(slot))

hRotResidue(slot) ==
    IF ~AxisAligned(rotOf(slot)) THEN 0
    ELSE IF rotOf(slot) \in {0, 180}
         THEN BoxResidue(slot.height, slot.width, rotOf(slot))
         ELSE BoxResidue(slot.width, slot.height, rotOf(slot))

\* (box - own) as a double, for box = own + D + r1: what is left of r1 after
\* rounding to the doubles around D.
DifferenceResidue(D, r1) ==
    IF D = 0 THEN r1
    ELSE LET e0 == FloorLog2(Abs(D))
             e == IF D < 0 /\ Abs(D) = Pow2(e0) /\ r1 > 0 THEN e0 - 1 ELSE e0
         IN  RoundHalfEven(r1, UlpUnits(e))

\* Math.round(x - (D + r2) / 2) in doubles: the small term survives the
\* subtraction when it is more than half the distance between the doubles
\* around x - D/2, and then a half-way value is rounded down.
RoundedPlacement(x, D, r2) ==
    LET T2 == 2 * x - D
        e0 == FloorLog2(Abs(T2)) - 1
        e == IF T2 > 0 /\ Abs(T2) = Pow2(e0 + 1) /\ r2 > 0 THEN e0 - 1 ELSE e0
        survives == IF T2 = 0 THEN r2 > 0 ELSE r2 > UlpUnits(e)
    IN  IF survives
        THEN (IF T2 % 2 = 1 THEN (T2 - 1) \div 2 ELSE T2 \div 2)
        ELSE (T2 + 1) \div 2

\* finalX = Math.round(input.slot.x - offsetX)
finalX(slot) ==
    IF AxisAligned(rotOf(slot))
    THEN LET D == offsetX2000(slot) \div 1000
         IN  RoundedPlacement(slot.x, D, DifferenceResidue(D, wRotResidue(slot)))
    ELSE MathRound2000(2000 * slot.x - offsetX2000(slot))

\* finalY = Math.round(input.slot.y - offsetY)
finalY(slot) ==
    IF AxisAligned(rotOf(slot))
    THEN LET D == offsetY2000(slot) \div 1000
         IN  RoundedPlacement(slot.y, D, DifferenceResidue(D, hRotResidue(slot)))
    ELSE MathRound2000(2000 * slot.y - offsetY2000(slot))

\* ------------------------------------------------------------ the files

\* The video paths a caller passes: none, a blob URL, a missing file, a
\* recorded .webm, and an .mp4 given as a file URL.
VideoPaths == {"", "blob:v1", "gone.webm", "a.webm", "file:///b.mp4"}

OverlayPaths == {"frame.png", "gone.png"}

\* v.path.startsWith('file:///') ? decodeURIComponent(new URL(v.path)
\*   .pathname.substring(win32 ? 1 : 0)) : decodeURIComponent(v.path)
cleanUrl(path) == IF path = "file:///b.mp4" THEN "/b.mp4" ELSE path

\* The files on disk.
existsSync(path) == path \in {"a.webm", "/b.mp4", "frame.png", "shot.jpg"}

\* cleanUrl.endsWith('.mp4')
endsWithMp4(path) == path = "/b.mp4"

\* The slots a frame configuration is made of: an upright slot, a slot
\* turned by 90 degrees whose sides differ in parity, and a slot of width 0.
SlotPool ==
    { [x |-> 200, y |-> 200, width |-> 400, height |-> 300, rotation |-> 0],
      [x |-> 50, y |-> 600, width |-> 400, height |-> 301, rotation |-> 90],
      [x |-> 10, y |-> 10, width |-> 0, height |-> 300, rotation |-> 0] }

\* The canvas size.
CanvasPool == {[width |-> 800, height |-> 1200]}

FrameConfigs ==
    {None} \cup
    {[width |-> c.width, height |-> c.height, slots |-> ss] :
        c \in CanvasPool, ss \in SeqUpTo(SlotPool, MaxSlots)}

Overlays == {None} \cup {[path |-> p] : p \in OverlayPaths}

VideoLists == SeqUpTo({[path |-> p] : p \in VideoPaths}, MaxVideos)

\* ------------------------------------------------- the filter graph text

\* "[n:v]", "[vi]", "[bgi]" and "[out]".
InLabel(n) == [t |-> "in", n |-> n]
VLabel(i) == [t |-> "v", n |-> i]
BgLabel(i) == [t |-> "bg", n |-> i]
OutLabel == [t |-> "out", n |-> 0]
NoLabel == [t |-> "none", n |-> 0]

\* The validInputs of system.ipc.ts:299-306: videos[i] is kept, with
\* slots[i], when it has a path, a slot and a file on disk.
slotOfVideo(slots, i) == slots[i]

\* A validation that gives the composite up as soon as one video is missing.
ValidInputsFrom_AllOrNothing(videos, slots) ==
    IF \A i \in 1..Len(videos) :
           videos[i].path # "" /\ i <= Len(slots) /\ existsSync(cleanUrl(videos[i].path))
    THEN [i \in 1..Len(videos) |->
             [path |-> cleanUrl(videos[i].path), slot |-> slots[i], index |-> i - 1]]
    ELSE <<>>

\* A validation that gives the k-th video it keeps the k-th slot.
ValidInputsFrom_Compacted(videos, slots) ==
    LET F[i \in 0..Len(videos)] ==
            IF i = 0 THEN <<>>
            ELSE LET acc == F[i - 1]
                     v == videos[i]
                 IN  IF v.path = "" \/ i > Len(slots) THEN acc
                     ELSE IF existsSync(cleanUrl(v.path))
                          THEN Append(acc, [path |-> cleanUrl(v.path),
                                            slot |-> slots[Len(acc) + 1],
                                            index |-> Len(acc)])
                          ELSE acc
    IN  F[Len(videos)]

ValidInputsFrom(videos, slots) ==
    LET F[i \in 0..Len(videos)] ==
            IF i = 0 THEN <<>>
            ELSE LET acc == F[i - 1]
                     v == videos[i]
                 IN  IF v.path = "" \/ i > Len(slots) THEN acc
                     ELSE IF existsSync(cleanUrl(v.path))
                          THEN Append(acc, [path |-> cleanUrl(v.path),
                                            slot |-> slotOfVideo(slots, i),
                                            index |-> Len(acc)])
                          ELSE acc
    IN  F[Len(videos)]

\* Input 0: color=c=black@0.0:s=WxH as lavfi.
BackgroundInput(frameConfig) ==
    [kind |-> "lavfi", path |-> "color", loop |-> FALSE,
     w |-> frameConfig.width, h |-> frameConfig.height]

\* command.input(input.path).inputOption('-stream_loop -1')
VideoInput(input) ==
    [kind |-> "file", path |-> input.path, loop |-> TRUE, w |-> 0, h |-> 0]

\* command.input(overlayUrl)
OverlayInput(overlayUrl) ==
    [kind |-> "file", path |-> overlayUrl, loop |-> FALSE, w |-> 0, h |-> 0]

\* The inputs in the order the command receives them (system.ipc.ts:312-324).
CommandInputs(frameConfig, vi, overlayUrl) ==
    <<BackgroundInput(frameConfig)>>
        \o [k \in 1..Len(vi) |-> VideoInput(vi[k])]
        \o <<OverlayInput(overlayUrl)>>

\* The engine input the chain of source i reads: `[${i + 1}:v]`.
SourceInputIndex(i) == i + 1

\* A chain that ends with the rotate filter whatever the angle.
SourceChain_AlwaysRotates(i, slot) ==
    [kind |-> "source",
     inA |-> InLabel(SourceInputIndex(i)), inB |-> NoLabel, out |-> VLabel(i),
     filters |-> <<"format", "scale", "crop", "rotate">>,
     w |-> slot.width, h |-> slot.height, rot |-> rotOf(slot),
     x |-> 0, y |-> 0, shortest |-> "unset"]

\* `[${i + 1}:v]format=yuva420p,scale=w:h:force_original_aspect_ratio=
\*  increase,crop=w:h[,rotate=...][v${i}];`
SourceChain(i, slot) ==
    [kind |-> "source",
     inA |-> InLabel(SourceInputIndex(i)), inB |-> NoLabel, out |-> VLabel(i),
     filters |-> IF rotOf(slot) # 0
                 THEN <<"format", "scale", "crop", "rotate">>
                 ELSE <<"format", "scale", "crop">>,
     w |-> slot.width, h |-> slot.height, rot |-> rotOf(slot),
     x |-> 0, y |-> 0, shortest |-> "unset"]

\* Every overlay told to end with its shortest input.
ShortestFlag_Always(i) == "1"

\* shortest=${i === 0 ? 1 : 0}
ShortestFlag(i) == IF i = 0 THEN "1" ELSE "0"

\* One label for the output of every overlay.
nextNode_Shared(i) == BgLabel(0)

\* Labels that go on counting from the builds made before.
nextNode_Carried(i) == BgLabel(i + Len(builds))

\* const nextNode = `[bg${i}]`
nextNode(i) == BgLabel(i)

\* `${lastOverlayNode}[v${i}]overlay=${finalX}:${finalY}:shortest=..${nextNode};`
OverlayStage(lastOverlayNode, i, slot) ==
    [kind |-> "overlay",
     inA |-> lastOverlayNode, inB |-> VLabel(i), out |-> nextNode(i),
     filters |-> <<"overlay">>,
     w |-> 0, h |-> 0, rot |-> 0,
     x |-> finalX(slot), y |-> finalY(slot), shortest |-> ShortestFlag(i)]

\* The frame template read from the input of the last video.
FrameInputIndex_OffByOne(n) == n

\* The engine input of the frame template: `[${validInputs.length + 1}:v]`.
FrameInputIndex(n) == n + 1

\* The frame template laid on the bare base instead of the composite so far.
FrameOverlayStage_OnBase(lastOverlayNode, n) ==
    [kind |-> "overlay",
     inA |-> InLabel(0), inB |-> InLabel(n + 1), out |-> OutLabel,
     filters |-> <<"overlay">>,
     w |-> 0, h |-> 0, rot |-> 0,
     x |-> 0, y |-> 0, shortest |-> "unset"]

\* `${lastOverlayNode}[${validInputs.length + 1}:v]overlay=0:0[${finalNode}]`
FrameOverlayStage(lastOverlayNode, n) ==
    [kind |-> "overlay",
     inA |-> lastOverlayNode, inB |-> InLabel(FrameInputIndex(n)), out |-> OutLabel,
     filters |-> <<"overlay">>,
     w |-> 0, h |-> 0, rot |-> 0,
     x |-> 0, y |-> 0, shortest |-> "unset"]

\* The first pass of the builder (system.ipc.ts:330-343).
SourceChains(vi) == [k \in 1..Len(vi) |-> SourceChain(k - 1, vi[k].slot)]

\* The second pass (system.ipc.ts:346-368): the overlays written so far and
\* lastOverlayNode after the first k valid inputs.
OverlayPass(vi) ==
    LET F[k \in 0..Len(vi)] ==
            IF k = 0 THEN [graph |-> <<>>, lastOverlayNode |-> InLabel(0)]
            ELSE LET prev == F[k - 1]
                 IN  [graph |-> Append(prev.graph,
                                       OverlayStage(prev.lastOverlayNode, k - 1, vi[k].slot)),
                      lastOverlayNode |-> nextNode(k - 1)]
    IN  F[Len(vi)]

\* The whole filterGraph string, chain by chain (system.ipc.ts:327-372).
BuildFilterGraph(vi) ==
    LET pass == OverlayPass(vi)
    IN  SourceChains(vi) \o pass.graph
            \o <<FrameOverlayStage(pass.lastOverlayNode, Len(vi))>>

\* ------------------------------------------- system:save-session-locally

\* The handler is entered from "idle"; "ffmpeg" is the composite run in
\* flight, "legacy" the per-video copy, "respond" the return statement and
\* "returned" the resolved IPC call.

\* The strip, the GIF and the photos of a call. A data URL is saved when it
\* has the form data:<type>;base64,<data>; a photo given by path is copied
\* when the file exists (system.ipc.ts:245-290).
StripUrls == {"", "data:image/jpeg;base64,c3RyaXA=", "blob:strip"}
GifUrls == {"", "data:image/gif;base64,R0lGODlh", "data:,"}
PhotoPaths == {"data:image/jpeg;base64,cGhvdG8=", "data:text", "shot.jpg", "gone.jpg"}

matchesDataUrl(url) ==
    url \in {"data:image/jpeg;base64,c3RyaXA=", "data:image/gif;base64,R0lGODlh",
             "data:image/jpeg;base64,cGhvdG8="}

startsWithData(path) == path \in {"data:image/jpeg;base64,cGhvdG8=", "data:text"}

\* The name the caller gives to its i-th photo.
PhotoFilename(i) ==
    CASE i = 1 -> "photo_1.jpg" [] i = 2 -> "photo_2.jpg" [] i = 3 -> "photo_3.jpg"
      [] OTHER -> "photo_n.jpg"

StillSets ==
    [stripDataUrl : StripUrls, gifDataUrl : GifUrls,
     photos : UNION {[1..n -> PhotoPaths] : n \in 0..MaxPhotos}]

NoStills == [stripDataUrl |-> "", gifDataUrl |-> "", photos |-> <<>>]

SavedStrip(url) ==
    IF url # "" /\ matchesDataUrl(url)
    THEN <<[filename |-> "strip.jpg", mimeType |-> "image/jpeg"]>>
    ELSE <<>>

SavedGif(url) ==
    IF url # "" /\ matchesDataUrl(url)
    THEN <<[filename |-> "gif.gif", mimeType |-> "image/gif"]>>
    ELSE <<>>

\* Whether the i-th photo of the call is written to the session folder.
PhotoSaved(path) ==
    IF startsWithData(path) THEN matchesDataUrl(path) ELSE existsSync(cleanUrl(path))

RECURSIVE SavedPhotos(_, _)
SavedPhotos(paths, k) ==
    IF k = 0 THEN <<>>
    ELSE SavedPhotos(paths, k - 1) \o
         (IF PhotoSaved(paths[k])
          THEN <<[filename |-> PhotoFilename(k), mimeType |-> "image/jpeg"]>>
          ELSE <<>>)

\* savedFiles when the video part of the handler is reached.
SavedStills(stills) ==
    SavedStrip(stills.stripDataUrl) \o SavedGif(stills.gifDataUrl)
        \o SavedPhotos(stills.photos, Len(stills.photos))

\* The output options of the two kinds of engine run (system.ipc.ts:376-380
\* and 418-421).
CompositeRun ==
    [output |-> "live_video.mp4",
     outputOptions |-> <<"-c:v libx264", "-preset veryfast", "-crf 28", "-pix_fmt yuv420p", "-t 5">>]

TranscodeRun ==
    [output |-> "video.mp4",
     outputOptions |-> <<"-c:v libx264", "-preset veryfast", "-crf 28", "-pix_fmt yuv420p">>]

\* `params.videos.length > 0 && params.frameConfig && params.overlay`
CompositeBranch(p) ==
    Len(p.videos) > 0 /\ p.frameConfig # None /\ p.overlay # None

\* `validInputs.length > 0 && existsSync(overlayUrl)`
RunsEngine(vi, overlayUrl) == Len(vi) > 0 /\ existsSync(overlayUrl)

\* system.ipc.ts:223-324: the call, the validation of the videos and, when
\* the composite is to run, the command's inputs and graph.
SaveSessionLocally(videos, frameConfig, overlay, stills) ==
    /\ pc = "idle"
    /\ params' = [videos |-> videos, frameConfig |-> frameConfig, overlay |-> overlay,
                  stripDataUrl |-> stills.stripDataUrl, gifDataUrl |-> stills.gifDataUrl,
                  photos |-> stills.photos]
    /\ savedFiles' = SavedStills(stills)
    /\ engineError' = None
    /\ response' = None
    /\ IF CompositeBranch(params')
       THEN LET overlayUrl == cleanUrl(overlay.path)
                vi == ValidInputsFrom(videos, frameConfig.slots)
            IN  /\ validInputs' = vi
                /\ IF RunsEngine(vi, overlayUrl)
                   THEN /\ inputs' = CommandInputs(frameConfig, vi, overlayUrl)
                        /\ filterGraph' = BuildFilterGraph(vi)
                        /\ engineRuns' = <<CompositeRun>>
                        /\ pc' = "ffmpeg"
                   ELSE /\ inputs' = <<>>
                        /\ filterGraph' = <<>>
                        /\ engineRuns' = <<>>
                        /\ pc' = "respond"
       ELSE /\ validInputs' = <<>>
            /\ inputs' = <<>>
            /\ filterGraph' = <<>>
            /\ engineRuns' = <<>>
            /\ pc' = "legacy"
    /\ UNCHANGED outsideVideo

\* .on('end'): the strip is listed among the saved files.
FfmpegEnd ==
    /\ pc = "ffmpeg"
    /\ savedFiles' = Append(savedFiles, [filename |-> "live_video.mp4", mimeType |-> "video/mp4"])
    /\ pc' = "respond"
    /\ UNCHANGED <<params, validInputs, inputs, filterGraph, engineRuns, engineError, response>>
    /\ UNCHANGED outsideVideo

\* .on('error'): logged, and the promise resolves all the same.
FfmpegError ==
    /\ pc = "ffmpeg"
    /\ engineError' = [message |-> "ffmpeg exited with code 1: Conversion failed!"]
    /\ pc' = "respond"
    /\ UNCHANGED <<params, validInputs, inputs, filterGraph, savedFiles, engineRuns, response>>
    /\ UNCHANGED outsideVideo

\* The videos the legacy copy hands to the engine: those on disk that are
\* not .mp4 already (system.ipc.ts:405-416).
NeedsTranscode(video) ==
    /\ video.path # "blob:v1"
    /\ existsSync(cleanUrl(video.path))
    /\ ~endsWithMp4(cleanUrl(video.path))

\* What the legacy copy of one video adds to savedFiles (system.ipc.ts:
\* 399-441); converted tells whether its transcode ended or failed.
LegacyFile(video, converted) ==
    LET url == cleanUrl(video.path)
    IN  IF video.path = "blob:v1" \/ ~existsSync(url) THEN <<>>
        ELSE IF endsWithMp4(url) \/ converted
             THEN <<[filename |-> "video.mp4", mimeType |-> "video/mp4"]>>
             ELSE <<[filename |-> "video.webm", mimeType |-> "video/webm"]>>

\* The else branch: every video is copied or transcoded on its own.
LegacyCopy ==
    /\ pc = "legacy"
    /\ \E ended \in SUBSET {i \in 1..Len(params.videos) : NeedsTranscode(params.videos[i])} :
         LET F[i \in 0..Len(params.videos)] ==
                 IF i = 0 THEN <<>>
                 ELSE F[i - 1] \o LegacyFile(params.videos[i], i \in ended)
         IN  savedFiles' = savedFiles \o F[Len(params.videos)]
    /\ engineRuns' = [k \in 1..Cardinality({i \in 1..Len(params.videos) :
                                                NeedsTranscode(params.videos[i])}) |->
                          TranscodeRun]
    /\ pc' = "respond"
    /\ UNCHANGED <<params, validInputs, inputs, filterGraph, engineError, response>>
    /\ UNCHANGED outsideVideo

\* A handler that gives the whole save up when the strip composite failed.
Respond_FailsWithComposite ==
    /\ pc = "respond"
    /\ response' = IF engineError # None \/ (CompositeBranch(params) /\ engineRuns = <<>>)
                   THEN [success |-> FALSE, error |-> "video composite failed"]
                   ELSE [success |-> TRUE, data |-> savedFiles]
    /\ pc' = "returned"
    /\ UNCHANGED <<params, validInputs, inputs, filterGraph, savedFiles, engineRuns, engineError>>
    /\ UNCHANGED outsideVideo

\* `return { success: true, data: savedFiles }`
Respond ==
    /\ pc = "respond"
    /\ response' = [success |-> TRUE, data |-> savedFiles]
    /\ pc' = "returned"
    /\ UNCHANGED <<params, validInputs, inputs, filterGraph, savedFiles, engineRuns, engineError>>
    /\ UNCHANGED outsideVideo

\* The call is over; its locals are gone.
Return ==
    /\ pc = "returned"
    /\ pc' = "idle"
    /\ params' = None
    /\ validInputs' = <<>>
    /\ inputs' = <<>>
    /\ filterGraph' = <<>>
    /\ savedFiles' = <<>>
    /\ engineRuns' = <<>>
    /\ engineError' = None
    /\ response' = None
    /\ UNCHANGED outsideVideo

Invoke ==
    /\ pc = "idle"
    /\ \E videos \in VideoLists, frameConfig \in FrameConfigs, overlay \in Overlays :
          SaveSessionLocally(videos, frameConfig, overlay, NoStills)

\* ------------------------------------------------ the overlay placement

\* The slots the placement is computed for.
GeomSlots ==
    {[x |-> x, y |-> y, width |-> w, height |-> h, rotation |-> r] :
        x \in {-3, 0, 200}, y \in {0, 5}, w \in 1..MaxDim, h \in 1..MaxDim, r \in Angles}
    \cup
    {[x |-> x, y |-> y, width |-> d[1], height |-> d[2], rotation |-> r] :
        x \in {50, 200}, y \in {200, 600},
        d \in {<<400, 300>>, <<600, 401>>, <<401, 600>>, <<1080, 721>>}, r \in Angles}
    \cup
    {[x |-> x, y |-> y, width |-> w, height |-> h] :
        x \in {-3, 0, 200}, y \in {0, 5}, w \in 1..MaxDim, h \in {1, 300}}

\* system.ipc.ts:330-362 for one slot: the filters of its chain, the bounding
\* box of the rotated layer and the position the overlay is given.
ComputePlacement ==
    /\ pc = "idle"
    /\ geomSlot # None
    /\ geomOut = None
    /\ geomOut' = [filters |-> SourceChain(0, geomSlot).filters,
                   rotFilter |-> rotFilter(geomSlot),
                   wRotMilli |-> wRotMilli(geomSlot), hRotMilli |-> hRotMilli(geomSlot),
                   wRotResidue |-> wRotResidue(geomSlot),
                   hRotResidue |-> hRotResidue(geomSlot),
                   finalX |-> finalX(geomSlot), finalY |-> finalY(geomSlot)]
    /\ UNCHANGED <<pc, geomSlot>>
    /\ UNCHANGED outsideGeom

\* ----------------------------------------- the frame and the photos

MaxFrameSlots == 3

\* The ids of the slots of a frame, by position, and the id of a slot that
\* is no longer in the frame.
SlotIdNames == <<"s1", "s2", "s3", "s4", "s5">>
SlotIdOf(i) == SlotIdNames[i]
DeletedSlotId == "deleted"

\* The geometry of the slot at position i: every slot has its own.
SlotGeometryOf(i) ==
    CASE i = 1 -> [x |-> 200, y |-> 200, width |-> 400, height |-> 300, rotation |-> 0]
      [] i = 2 -> [x |-> 50, y |-> 600, width |-> 400, height |-> 301, rotation |-> 90]
      [] i = 3 -> [x |-> 420, y |-> 700, width |-> 200, height |-> 150, rotation |-> -15]
      [] OTHER -> [x |-> 10 * i, y |-> 10, width |-> 100, height |-> 100, rotation |-> 180]

\* A PhotoSlot (part_006:40-48); duplicateOfSlotId is "" when not set.
PhotoSlot(i, dup) ==
    LET g == SlotGeometryOf(i)
    IN  [id |-> SlotIdOf(i), x |-> g.x, y |-> g.y, width |-> g.width,
         height |-> g.height, rotation |-> g.rotation, duplicateOfSlotId |-> dup]

\* The values duplicateOfSlotId of slot i can hold in a frame of n slots: not
\* set, any other slot of the frame (the selector leaves out the slot itself),
\* or a slot deleted since (deleteSlot leaves the references to it).
DupRefs(n, i) == {""} \cup {SlotIdOf(j) : j \in (1..n) \ {i}} \cup {DeletedSlotId}

\* FrameConfig (part_006:50-57).
FramesOf(n) ==
    {[canvasWidth |-> 800, canvasHeight |-> 1200, overlayPath |-> o,
      slots |-> [i \in 1..n |-> PhotoSlot(i, dup[i])]] :
        o \in OverlayPaths,
        dup \in {d \in [1..n -> DupRefs(n, 0)] : \A i \in 1..n : d[i] \in DupRefs(n, i)}}

Frames == UNION {FramesOf(n) : n \in 0..MaxFrameSlots}

\* The photo captured for a slot id: every capture is its own image; the
\* image of s3 cannot be decoded, and s2 was captured without a video.
ImageOf(id) ==
    CASE id = "s1" -> "p1.jpg" [] id = "s2" -> "p2.jpg" [] id = "s3" -> "bad.jpg"
      [] OTHER -> "p4.jpg"

VideoOf(id) ==
    CASE id = "s1" -> "v1.webm" [] id = "s2" -> "" [] id = "s3" -> "v3.webm"
      [] OTHER -> "v4.webm"

\* CapturedPhoto (part_006:60-66); videoPath is "" when not set.
CapturedPhoto(id) == [slotId |-> id, imagePath |-> ImageOf(id), videoPath |-> VideoOf(id)]

\* The photo lists of the store: at most one photo per slot id.
PhotoLists ==
    {SelectSeq([i \in 1..MaxFrameSlots |-> CapturedPhoto(SlotIdOf(i))],
               LAMBDA ph : ph.slotId \in ids) :
        ids \in SUBSET {SlotIdOf(i) : i \in 1..MaxFrameSlots}}

\* img.onload / img.onerror of loadImage (PostProcessing.tsx:98-106).
ImageLoads(src) == src \in {"p1.jpg", "p2.jpg", "p4.jpg", "file://frame.png"}

\* `file://${sessionFrame.overlayPath}`
FileUrl(path) == IF path = "frame.png" THEN "file://frame.png" ELSE "file://gone.png"

\* photos.find(p => p.slotId === id): the first match, or None.
FindPhoto(list, id) ==
    LET hits == {i \in 1..Len(list) : list[i].slotId = id}
    IN  IF hits = {} THEN None
        ELSE list[CHOOSE i \in hits : \A j \in hits : i <= j]

\* A lookup by the slot's own id, whether or not it is a duplicate.
sourceSlotId_OwnId(slot) == slot.id

\* const sourceSlotId = slot.duplicateOfSlotId || slot.id
sourceSlotId(slot) ==
    IF slot.duplicateOfSlotId # "" THEN slot.duplicateOfSlotId ELSE slot.id

\* ------------------------------------------- PostProcessing: the still

\* One operation on the 2D context of the canvas.
CanvasOp(op, slotId, src, x, y, width, height, rotation) ==
    [op |-> op, slotId |-> slotId, src |-> src, x |-> x, y |-> y,
     width |-> width, height |-> height, rotation |-> rotation]

\* FILTERS (PostProcessing.tsx:15-22): the ids and their filterStr.
FilterIds == {"none", "grayscale"}

filterStrOf(id) == IF id = "grayscale" THEN "grayscale(100%)" ELSE "none"

\* ctx.filter = str
SetFilter(str) == CanvasOp("filter", "", str, 0, 0, 0, 0, 0)

\* ctx.fillStyle = '#ffffff'; ctx.fillRect(0, 0, canvas.width, canvas.height)
FillBackground(f) ==
    CanvasOp("fillRect", "", "#ffffff", 0, 0, f.canvasWidth, f.canvasHeight, 0)

\* The body of the loop over the slots, for one slot: the photo of the source
\* slot, loaded, clipped to the slot and drawn around the slot's centre; no
\* operation when there is no photo or when the image does not load.
DrawSlot(slot, list) ==
    LET photo == FindPhoto(list, sourceSlotId(slot))
    IN  IF photo = None THEN <<>>
        ELSE IF ~ImageLoads(photo.imagePath) THEN <<>>
        ELSE <<CanvasOp("drawPhoto", slot.id, photo.imagePath, slot.x, slot.y,
                        slot.width, slot.height, slot.rotation)>>

\* for (const slot of sessionFrame.slots) { ... }
RECURSIVE DrawSlots(_, _, _)
DrawSlots(slots, list, k) ==
    IF k = 0 THEN <<>>
    ELSE DrawSlots(slots, list, k - 1) \o DrawSlot(slots[k], list)

\* The frame overlay without the reset of the filter.
DrawFrameOverlay_NoReset(f) ==
    IF ImageLoads(FileUrl(f.overlayPath))
    THEN <<CanvasOp("drawFrame", "", FileUrl(f.overlayPath), 0, 0,
                    f.canvasWidth, f.canvasHeight, 0)>>
    ELSE <<>>

\* The frame overlay: the filter is reset, then the frame is drawn over the
\* whole canvas when its image loads.
DrawFrameOverlay(f) ==
    <<SetFilter("none")>> \o
    (IF ImageLoads(FileUrl(f.overlayPath))
     THEN <<CanvasOp("drawFrame", "", FileUrl(f.overlayPath), 0, 0,
                     f.canvasWidth, f.canvasHeight, 0)>>
     ELSE <<>>)

\* canvas.toDataURL('image/jpeg', 0.95): the picture of what was drawn.
toDataURL(ops) == [jpeg |-> ops]

\* The page is shown for a session: its frame and its photos; the state of
\* the page is what useState gives it.
OpenPostProcessing ==
    /\ pc = "idle"
    /\ \E f \in Frames \cup {None}, list \in PhotoLists :
          /\ frame' = f
          /\ photos' = list
    /\ pc' = "post"
    /\ UNCHANGED postVars
    /\ UNCHANGED outsidePost

\* What generateCompositeFromPhotos does to the canvas with the filter id:
\* the background, the filter, the photos, the filter reset, the frame.
CompositeOps(id) ==
    <<FillBackground(frame), SetFilter(filterStrOf(id))>>
      \o DrawSlots(frame.slots, photos, Len(frame.slots))
      \o DrawFrameOverlay(frame)

\* The drawing and the encoding of the canvas; when toDataURL throws, the
\* catch of line 205 sets the error and the composite stays as it was.
DrawComposite(id) ==
    /\ canvasOps' = CompositeOps(id)
    /\ \E encodes \in BOOLEAN :
          IF encodes
          THEN /\ compositeDataUrl' = toDataURL(canvasOps')
               /\ pc' = "composited"
               /\ error' = error
          ELSE /\ compositeDataUrl' = compositeDataUrl
               /\ pc' = pc
               /\ error' = [message |-> "Failed to generate composite image"]

\* The effect of lines 58-62 when the page is shown.
generateCompositeFromPhotos ==
    /\ pc = "post"
    /\ frame # None
    /\ Len(photos) > 0
    /\ DrawComposite(selectedFilter)
    /\ UNCHANGED <<frame, photos, selectedFilter, printed, uploads, videoUrls, previewVideos>>
    /\ UNCHANGED outsidePost

\* A filter button: setSelectedFilter(filter.id), and the effect runs again.
setSelectedFilter ==
    /\ pc \in {"post", "composited"}
    /\ \E id \in FilterIds :
          /\ id # selectedFilter
          /\ selectedFilter' = id
          /\ IF frame # None /\ Len(photos) > 0
             THEN DrawComposite(id)
             ELSE UNCHANGED <<pc, canvasOps, compositeDataUrl, error>>
    /\ UNCHANGED <<frame, photos, printed, uploads, videoUrls, previewVideos>>
    /\ UNCHANGED outsidePost

\* handlePrint: the composite is saved and handed to the printer.
handlePrint ==
    /\ pc \in {"post", "composited"}
    /\ compositeDataUrl # None
    /\ error' = None
    /\ printed' = <<compositeDataUrl>>
    /\ pc' = "printed"
    /\ UNCHANGED <<frame, photos, canvasOps, compositeDataUrl, selectedFilter, uploads,
                   videoUrls, previewVideos>>
    /\ UNCHANGED outsidePost

\* handleEmailSubmit: the composite is uploaded and the session is logged.
handleEmailSubmit ==
    /\ pc \in {"post", "composited"}
    /\ compositeDataUrl # None
    /\ error' = None
    /\ uploads' = <<compositeDataUrl>>
    /\ pc' = "emailed"
    /\ UNCHANGED <<frame, photos, canvasOps, compositeDataUrl, selectedFilter, printed,
                   videoUrls, previewVideos>>
    /\ UNCHANGED outsidePost

\* ------------------------- PostProcessing: the cover fit, in doubles

\* img.width / img.height, slot.width / slot.height, slot.height * imgAspect
\* and slot.width / imgAspect are operations on doubles (IEEE-754 binary64):
\* each result is the double nearest to the exact one, a tie going to the
\* even significand.  A positive double is kept as its 53-bit significand
\* hi * 2^27 + lo and the exponent e of its last bit.
Limb == Pow2(27)

Double(hi, lo, e) == [hi |-> hi, lo |-> lo, e |-> e]

BitLength(n) == FloorLog2(n) + 1

\* A whole number as a double.
FromInt(n) == Double(n * Pow2(26 - BitLength(n)), 0, BitLength(n) - 53)

\* The next double up.
RoundUp(d) ==
    IF d.lo + 1 < Limb THEN Double(d.hi, d.lo + 1, d.e)
    ELSE IF d.hi + 1 < Limb \div 2 THEN Double(d.hi + 1, 0, d.e)
    ELSE Double(Limb \div 4, 0, d.e + 1)

\* p > q and p >= q for doubles.
Gt(p, q) ==
    \/ p.e > q.e
    \/ p.e = q.e /\ p.hi > q.hi
    \/ p.e = q.e /\ p.hi = q.hi /\ p.lo > q.lo

Ge(p, q) == p = q \/ Gt(p, q)

\* The quotient of whole numbers is taken 13 bits at a time: r * 2^13 stays
\* a small number for the sides of an image or of a slot.
Chunk == Pow2(13)

DivChunk(r, d) == [q |-> (r * Chunk) \div d, r |-> (r * Chunk) % d]

\* a / b for whole numbers a and b: the leading bit and 52 more, and the rest
\* of the division decides the rounding.
FlDivInt(a, b) ==
    LET ba == BitLength(a)
        bb == BitLength(b)
        num0 == IF bb > ba THEN a * Pow2(bb - ba) ELSE a
        den == IF ba > bb THEN b * Pow2(ba - bb) ELSE b
        sh == IF num0 >= den THEN 0 ELSE 1
        num == IF sh = 1 THEN 2 * num0 ELSE num0
        c1 == DivChunk(num - den, den)
        c2 == DivChunk(c1.r, den)
        c3 == DivChunk(c2.r, den)
        c4 == DivChunk(c3.r, den)
        res == Double(Limb \div 4 + c1.q * (Chunk \div 2) + c2.q \div 2,
                      (c2.q % 2) * (Limb \div 2) + c3.q * Chunk + c4.q,
                      (ba - bb) - sh - 52)
    IN  IF 2 * c4.r > den \/ (2 * c4.r = den /\ c4.q % 2 = 1)
        THEN RoundUp(res) ELSE res

\* Numbers of two limbs [h, l]: comparison, difference, the double.
Ge2(a, b) == a.h > b.h \/ (a.h = b.h /\ a.l >= b.l)

Sub2(a, b) ==
    IF a.l >= b.l THEN [h |-> a.h - b.h, l |-> a.l - b.l]
    ELSE [h |-> a.h - b.h - 1, l |-> a.l + Limb - b.l]

Twice2(a) == [h |-> 2 * a.h + (2 * a.l) \div Limb, l |-> (2 * a.l) % Limb]

Inc2(a) == IF a.l + 1 < Limb THEN [h |-> a.h, l |-> a.l + 1] ELSE [h |-> a.h + 1, l |-> 0]

\* n more bits of the quotient r / d of two-limb numbers (r < d), after the
\* bits in sig.
RECURSIVE DivBits2(_, _, _)
DivBits2(s, d, n) ==
    IF n = 0 THEN s
    ELSE IF Ge2(Twice2(s.r), d)
         THEN DivBits2([r |-> Sub2(Twice2(s.r), d), sig |-> Inc2(Twice2(s.sig))], d, n - 1)
         ELSE DivBits2([r |-> Twice2(s.r), sig |-> Twice2(s.sig)], d, n - 1)

\* t / q for a whole number t and a double q.
FlDiv(t, q) ==
    LET den == [h |-> q.hi, l |-> q.lo]
        num0 == [h |-> FromInt(t).hi, l |-> 0]
        sh == IF Ge2(num0, den) THEN 0 ELSE 1
        num == IF sh = 1 THEN Twice2(num0) ELSE num0
        bits == DivBits2([r |-> Sub2(num, den), sig |-> [h |-> 0, l |-> 1]], den, 52)
        res == Double(bits.sig.h, bits.sig.l, FromInt(t).e - q.e - sh - 52)
        rest == Twice2(bits.r)
        up == IF rest = den THEN bits.sig.l % 2 = 1 ELSE Ge2(rest, den)
    IN  IF up THEN RoundUp(res) ELSE res

\* The product t * d in three limbs: p = 2p + d for the bits of t, from its
\* top bit k down.
RECURSIVE MulBits(_, _, _, _)
MulBits(t, k, d, p) ==
    IF k < 0 THEN p
    ELSE LET bit == (t \div Pow2(k)) % 2
             l0 == 2 * p[3] + bit * d.l
             l1 == 2 * p[2] + bit * d.h + l0 \div Limb
             l2 == 2 * p[1] + l1 \div Limb
         IN  MulBits(t, k - 1, d, <<l2, l1 % Limb, l0 % Limb>>)

\* t * q for a whole number t and a double q.
FlMul(t, q) ==
    LET prod == MulBits(t, BitLength(t) - 1, [h |-> q.hi, l |-> q.lo], <<0, 0, 0>>)
        len == IF prod[1] > 0 THEN BitLength(prod[1]) + 54 ELSE BitLength(prod[2]) + 27
        drop == len - 53
        unit == Pow2(drop)
        low == prod[3] \div unit + (prod[2] % unit) * (Limb \div unit)
        high == prod[2] \div unit + (prod[1] % unit) * (Limb \div unit)
        rest == prod[3] % unit
        res == Double(high, low, q.e + drop)
    IN  IF drop = 0 THEN Double(prod[2], prod[3], q.e)
        ELSE IF 2 * rest > unit \/ (2 * rest = unit /\ low % 2 = 1)
             THEN RoundUp(res) ELSE res

\* PostProcessing.tsx:141-154: the size the image is drawn with.
CoverFit(img, slot) ==
    LET imgAspect == FlDivInt(img.width, img.height)
        slotAspect == FlDivInt(slot.width, slot.height)
    IN  IF Gt(imgAspect, slotAspect)
        THEN [drawHeight |-> FromInt(slot.height),
              drawWidth |-> FlMul(slot.height, imgAspect)]
        ELSE [drawWidth |-> FromInt(slot.width),
              drawHeight |-> FlDiv(slot.width, imgAspect)]

\* The images and the slots the cover fit is computed for.
Size(w, h) == [width |-> w, height |-> h]

FitInputs ==
    {[img |-> Size(sw, sh), slot |-> Size(tw, th)] :
        sw \in 1..MaxSide, sh \in 1..MaxSide, tw \in 1..MaxSide, th \in 1..MaxSide}
    \cup
    {[img |-> i, slot |-> t] :
        i \in {Size(1920, 1080), Size(640, 480), Size(1080, 1920)},
        t \in {Size(400, 300), Size(300, 400), Size(640, 360), Size(401, 600)}}

\* The cover fit of one image for one slot.
ComputeCoverFit ==
    /\ pc = "idle"
    /\ fitIn # None
    /\ fitOut = None
    /\ fitOut' = CoverFit(fitIn.img, fitIn.slot)
    /\ UNCHANGED <<pc, fitIn>>
    /\ UNCHANGED outsideFit

\* ------------------------------- PostProcessing: the companion videos

\* The slot ids of the photos that carry a video.
PhotosWithVideo(list) == {list[i].slotId : i \in {j \in 1..Len(list) : list[j].videoPath # ""}}

\* The public URL of the uploaded video of a slot.
UploadedUrl(id) ==
    CASE id = "s1" -> "https://cdn/v1" [] id = "s3" -> "https://cdn/v3"
      [] OTHER -> "https://cdn/v4"

\* sessionFrame.slots.map(slot => uploadedVideoUrls[sourceSlotId] || '')
VideoUrlOf(slot, uploaded) ==
    IF sourceSlotId(slot) \in uploaded THEN UploadedUrl(sourceSlotId(slot)) ELSE ""

\* handleGenerateQR, as far as the list of videos: every video of a photo is
\* uploaded, which may fail, and the list has one entry per slot.
handleGenerateQR ==
    /\ pc \in {"post", "composited"}
    /\ compositeDataUrl # None
    /\ uploads' = <<compositeDataUrl>> \o [i \in 1..Len(photos) |-> photos[i].imagePath]
                     \o SelectSeq([i \in 1..Len(photos) |-> photos[i].videoPath],
                                  LAMBDA v : v # "")
    /\ \E uploaded \in SUBSET PhotosWithVideo(photos) :
          videoUrls' = [i \in 1..Len(frame.slots) |-> VideoUrlOf(frame.slots[i], uploaded)]
    /\ pc' = "qr"
    /\ UNCHANGED <<frame, photos, canvasOps, compositeDataUrl, selectedFilter, error,
                   printed, previewVideos>>
    /\ UNCHANGED outsidePost

\* One <video> element of the live preview, or None where the map gives null.
PreviewVideo(slot, list) ==
    LET photo == FindPhoto(list, sourceSlotId(slot))
    IN  IF photo = None THEN None
        ELSE IF photo.videoPath = "" THEN None
        ELSE [key |-> slot.id, src |-> photo.videoPath, poster |-> photo.imagePath,
              x |-> slot.x, y |-> slot.y, width |-> slot.width,
              height |-> slot.height, rotation |-> slot.rotation]

\* The live tab of the preview: the videos of the slots, when a photo has one.
renderLivePreview ==
    /\ pc = "post"
    /\ frame # None
    /\ PhotosWithVideo(photos) # {}
    /\ previewVideos' = [i \in 1..Len(frame.slots) |-> PreviewVideo(frame.slots[i], photos)]
    /\ pc' = "preview"
    /\ UNCHANGED <<frame, photos, canvasOps, compositeDataUrl, selectedFilter, error,
                   printed, uploads, videoUrls>>
    /\ UNCHANGED outsidePost

\* The page is left: the session ends and the page's state goes with it.
ClosePostProcessing ==
    /\ pc \in {"post", "composited", "qr", "preview", "printed", "emailed"}
    /\ frame' = None
    /\ photos' = <<>>
    /\ canvasOps' = <<>>
    /\ compositeDataUrl' = None
    /\ selectedFilter' = "none"
    /\ error' = None
    /\ printed' = <<>>
    /\ uploads' = <<>>
    /\ videoUrls' = <<>>
    /\ previewVideos' = <<>>
    /\ pc' = "idle"
    /\ UNCHANGED outsidePost

\* ------------------------------------------ ImageProcessor.composite

\* The photos handed to the compositor: one per slot, whose file may be gone.
SharpPhotos ==
    UNION {[1..n -> {"shot.jpg", "gone.jpg"}] : n \in 0..MaxFrameSlots}

\* A layer of the composite: the image, the sharp operations called on it in
\* the order of the calls, and where it goes.
Layer(input, calls, width, height, left, top, rotation) ==
    [input |-> input, calls |-> calls, width |-> width, height |-> height,
     left |-> left, top |-> top, rotation |-> rotation]

\* sharp(photo.path).rotate(photo.slot.rotation || 0).resize({..., fit: 'cover'})
PhotoCalls == <<"rotate", "resize">>

\* The loop over the photos: a photo whose file is gone is passed over.
RECURSIVE PhotoLayersOf(_, _)
PhotoLayersOf(paths, k) ==
    IF k = 0 THEN <<>>
    ELSE LET slot == PhotoSlot(k, "")
         IN  PhotoLayersOf(paths, k - 1) \o
             (IF ~existsSync(paths[k]) THEN <<>>
              ELSE <<Layer(paths[k], PhotoCalls, slot.width, slot.height, slot.x, slot.y,
                           slot.rotation)>>)

\* The frame on top, when its file exists.
FrameLayerOf(framePath, canvasWidth, canvasHeight) ==
    IF existsSync(framePath)
    THEN <<Layer(framePath, <<"resize">>, canvasWidth, canvasHeight, 0, 0, 0)>>
    ELSE <<>>

\* image:composite: the layers are composited into the output file.
ImageComposite ==
    /\ pc = "idle"
    /\ \E paths \in SharpPhotos, framePath \in OverlayPaths :
          /\ sharpIn' = [photos |-> paths, framePath |-> framePath]
          /\ photoLayers' = PhotoLayersOf(paths, Len(paths)) \o FrameLayerOf(framePath, 800, 1200)
    /\ sharpOut' = [success |-> TRUE, data |-> "composite.jpg"]
    /\ pc' = "sharp"
    /\ UNCHANGED outsideSharp

ImageCompositeReturn ==
    /\ pc = "sharp"
    /\ sharpIn' = None
    /\ photoLayers' = <<>>
    /\ sharpOut' = None
    /\ pc' = "idle"
    /\ UNCHANGED outsideSharp

\* ------------------------------------------------ the capture session

\* The frames a session is captured for, and the settings of the timer.
CaptureFrames == {f \in Frames : f.overlayPath = "frame.png"}
Configs == [timerEnabled : BOOLEAN, countdownDuration : 1..MaxCountdown]

\* currentFrame.slots[slotIndex], slotIndex counted from 0.
SlotAt(slots, i) == slots[i + 1]

\* getNextEmptySlot: the index of the first slot that is not a duplicate and
\* has no photo, or -1 for null.
getNextEmptySlot(slots, list) ==
    LET empty == {i \in 0..(Len(slots) - 1) :
                     /\ SlotAt(slots, i).duplicateOfSlotId = ""
                     /\ \A k \in 1..Len(list) : list[k].slotId # SlotAt(slots, i).id}
    IN  IF empty = {} THEN -1
        ELSE CHOOSE i \in empty : \A j \in empty : i <= j

\* addPhoto of the session store: the photo of the slot is replaced.
addPhoto(list, id) ==
    Append(SelectSeq(list, LAMBDA ph : ph.slotId # id), CapturedPhoto(id))

\* triggerCapture(i), up to the flash: the capture of slot i is under way.
triggerCapture(i) ==
    /\ captureState' = "capturing"
    /\ slotIndex' = i

\* startCountdown(i): the capture at once when the timer is off, the
\* countdown otherwise.
startCountdown(i) ==
    /\ currentSlotIndex' = i
    /\ IF ~config.timerEnabled
       THEN /\ triggerCapture(i)
            /\ UNCHANGED countdown
       ELSE /\ captureState' = "countdown"
            /\ countdown' = config.countdownDuration
            /\ slotIndex' = i
    /\ UNCHANGED <<pc, config, frame, photos>>
    /\ UNCHANGED outsideCapture

\* The Take Photo / Retake Photo button, shown while idle.
handleReady ==
    /\ pc = "capture"
    /\ captureState = "idle"
    /\ LET next == getNextEmptySlot(frame.slots, photos)
       IN  IF next # -1 THEN startCountdown(next)
           ELSE IF Len(frame.slots) > 0 THEN startCountdown(0)
           ELSE UNCHANGED vars

\* A thumbnail of the sidebar, which shows the slots that are not duplicates.
handleSlotClick ==
    /\ pc = "capture"
    /\ captureState = "idle"
    /\ \E i \in 0..(Len(frame.slots) - 1) :
          /\ SlotAt(frame.slots, i).duplicateOfSlotId = ""
          /\ startCountdown(i)

\* One second of the countdown; at its end the capture is triggered.
CountdownTick ==
    /\ pc = "capture"
    /\ captureState = "countdown"
    /\ IF countdown <= 1
       THEN /\ triggerCapture(slotIndex)
            /\ countdown' = 0
       ELSE /\ countdown' = countdown - 1
            /\ UNCHANGED <<captureState, slotIndex>>
    /\ UNCHANGED <<pc, config, currentSlotIndex, frame, photos>>
    /\ UNCHANGED outsideCapture

\* completeCapture: with a picture, the photo goes to the store under the id
\* of the slot and the preview is shown; without one the page is idle again.
completeCapture ==
    /\ pc = "capture"
    /\ captureState = "capturing"
    /\ \E gotPicture \in BOOLEAN :
          IF gotPicture
          THEN /\ photos' = addPhoto(photos, SlotAt(frame.slots, slotIndex).id)
               /\ captureState' = "preview"
          ELSE /\ captureState' = "idle"
               /\ UNCHANGED photos
    /\ UNCHANGED <<pc, config, countdown, currentSlotIndex, slotIndex, frame>>
    /\ UNCHANGED outsideCapture

\* The end of the preview: idle, and the next empty slot becomes current.
\* getNextEmptySlot is the one of the render startCountdown was made in,
\* which saw the photos of the new session: none.
PreviewTimeout ==
    /\ pc = "capture"
    /\ captureState = "preview"
    /\ captureState' = "idle"
    /\ LET next == getNextEmptySlot(frame.slots, <<>>)
       IN  currentSlotIndex' = IF next # -1 THEN next ELSE currentSlotIndex
    /\ UNCHANGED <<pc, config, countdown, slotIndex, frame, photos>>
    /\ UNCHANGED outsideCapture

\* ------------------------------------- the calls that carry the stills

\* The slot a saved session has at position i.
SaveSlotAt(i) ==
    CASE i = 1 -> [x |-> 200, y |-> 200, width |-> 400, height |-> 300, rotation |-> 90]
      [] i = 2 -> [x |-> 50, y |-> 600, width |-> 600, height |-> 401]
      [] OTHER -> [x |-> 20 * i, y |-> 40, width |-> 320, height |-> 240, rotation |-> 0]

SaveFrameConfigs ==
    {None, [width |-> 800, height |-> 1200, slots |-> [i \in 1..MaxSlots |-> SaveSlotAt(i)]]}

SaveVideoLists == SeqUpTo({[path |-> p] : p \in {"gone.webm", "a.webm"}}, MaxVideos)

\* The renderer's call at the end of a session: the stills and the videos.
InvokeSave ==
    /\ pc = "idle"
    /\ \E videos \in SaveVideoLists, frameConfig \in SaveFrameConfigs, overlay \in Overlays,
          stills \in StillSets :
          SaveSessionLocally(videos, frameConfig, overlay, stills)

\* ------------------------------------------------ system:generate-hq-gif

\* The calls are numbered in the order they are invoked.
GifJobIds == 1..MaxGifJobs

\* framesBase64: data URLs, some of them malformed.
GifFrameLists == SeqUpTo({"data:image/jpeg;base64,cGhvdG8=", "data:text"}, MaxGifFrames)

\* A file of a scratch directory: join(tempPath, `frame_${i}.jpg`) and
\* join(tempPath, 'output.gif').
FrameFile(dir, i) == [dir |-> dir, name |-> "frame", n |-> i]
OutputFile(dir) == [dir |-> dir, name |-> "output.gif", n |-> 0]

\* join(app.getPath('userData'), 'temp', `hq_gif_${Date.now()}`)
GifTempPath(now) == now

\* A call that was not invoked yet.
GifIdle ==
    [pc |-> "idle", frames |-> <<>>, tempPath |-> 0, framePaths |-> <<>>,
     response |-> None, cleanup |-> FALSE]

GifAtRest ==
    /\ gifClock = 0
    /\ gifJobs = [j \in GifJobIds |-> GifIdle]
    /\ tempFiles = {}

\* The loop of lines 136-144: the i-th entry of framesBase64 (i from 0) is
\* written to frame_<i>.jpg when it is a data URL.
RECURSIVE FramePathsOf(_, _, _)
FramePathsOf(framesBase64, dir, k) ==
    IF k = 0 THEN <<>>
    ELSE FramePathsOf(framesBase64, dir, k - 1) \o
         (IF matchesDataUrl(framesBase64[k]) THEN <<FrameFile(dir, k - 1)>> ELSE <<>>)

\* Date.now() moves on between two events of the main process.
GifClockTick ==
    /\ gifClock < MaxClock
    /\ gifClock' = gifClock + 1
    /\ UNCHANGED <<pc, gifJobs, tempFiles>>
    /\ UNCHANGED outsideGif

\* The handler up to the start of the engine (lines 128-167), which runs
\* without a break: the scratch directory, the frames, the early return.
GifInvoke(j) ==
    /\ gifJobs[j].pc = "idle"
    /\ \A k \in 1..(j - 1) : gifJobs[k].pc # "idle"
    /\ \E framesBase64 \in GifFrameLists :
          LET dir == GifTempPath(gifClock)
              paths == FramePathsOf(framesBase64, dir, Len(framesBase64))
          IN  /\ tempFiles' = tempFiles \cup Range(paths)
              /\ gifJobs' = [gifJobs EXCEPT ![j] =
                    [pc |-> IF Len(paths) = 0 THEN "returned" ELSE "ffmpeg",
                     frames |-> framesBase64, tempPath |-> dir, framePaths |-> paths,
                     response |-> IF Len(paths) = 0
                                  THEN [success |-> FALSE, error |-> "No valid frames provided"]
                                  ELSE None,
                     cleanup |-> FALSE]]
    /\ UNCHANGED <<pc, gifClock>>
    /\ UNCHANGED outsideGif

\* .on('end'): the engine has written output.gif; the file is read, the
\* removal of the scratch directory is scheduled and the handler returns
\* (lines 169-186).
GifFfmpegEnd(j) ==
    /\ gifJobs[j].pc = "ffmpeg"
    /\ tempFiles' = tempFiles \cup {OutputFile(gifJobs[j].tempPath)}
    /\ gifJobs' = [gifJobs EXCEPT ![j].pc = "returned",
                                  ![j].response = [success |-> TRUE, error |-> ""],
                                  ![j].cleanup = TRUE]
    /\ UNCHANGED <<pc, gifClock>>
    /\ UNCHANGED outsideGif

\* .on('error'): the catch of line 187 returns the message; nothing removes
\* the scratch directory.
GifFfmpegError(j) ==
    /\ gifJobs[j].pc = "ffmpeg"
    /\ gifJobs' = [gifJobs EXCEPT ![j].pc = "returned",
                                  ![j].response = [success |-> FALSE, error |-> "ffmpeg"]]
    /\ UNCHANGED <<pc, gifClock, tempFiles>>
    /\ UNCHANGED outsideGif

\* The timer of line 178: rmSync(tempPath, { recursive: true, force: true }).
GifCleanup(j) ==
    /\ gifJobs[j].cleanup
    /\ tempFiles' = {f \in tempFiles : f.dir # gifJobs[j].tempPath}
    /\ gifJobs' = [gifJobs EXCEPT ![j].cleanup = FALSE]
    /\ UNCHANGED <<pc, gifClock>>
    /\ UNCHANGED outsideGif

\* --------------------------------------- the builder, call after call

BuildAtRest == builds = <<>>

\* What a build is made from: the canvas and the slot list, the valid
\* inputs and the overlay.
BuildKey(frameConfig, vi, overlayUrl) ==
    [frameConfig |-> frameConfig, validInputs |-> vi, overlayUrl |-> overlayUrl]

\* system.ipc.ts:299-372 in one more call of the handler: the validation of
\* the videos, the command's inputs and the filter graph, when the engine
\* is to run.
BuildComposite ==
    /\ pc = "idle"
    /\ Len(builds) < MaxBuilds
    /\ \E videos \in SaveVideoLists, frameConfig \in SaveFrameConfigs \ {None},
          overlay \in Overlays \ {None} :
          LET overlayUrl == cleanUrl(overlay.path)
              vi == ValidInputsFrom(videos, frameConfig.slots)
          IN  /\ RunsEngine(vi, overlayUrl)
              /\ builds' = Append(builds,
                    [key |-> BuildKey(frameConfig, vi, overlayUrl),
                     inputs |-> CommandInputs(frameConfig, vi, overlayUrl),
                     filterGraph |-> BuildFilterGraph(vi)])
    /\ UNCHANGED pc
    /\ UNCHANGED outsideBuild

\* ------------------------------ the three compositors, slot by slot

ContractAtRest == layers = None

\* What a compositor puts on the canvas for one slot: the rectangle its
\* source is cover-cropped to, the upright box the layer occupies (in
\* thousandths of a pixel) and the centre of that box (in 1/2000 pixel).
SlotLayer(cropWidth, cropHeight, boxWMilli, boxHMilli, centreX2000, centreY2000) ==
    [cropWidth |-> cropWidth, cropHeight |-> cropHeight,
     boxWMilli |-> boxWMilli, boxHMilli |-> boxHMilli,
     centreX2000 |-> centreX2000, centreY2000 |-> centreY2000]

\* generateCompositeFromPhotos (PostProcessing.tsx:131-157): the origin is
\* moved to the centre of the slot and the context turned; the clip
\* rect(-w/2, -h/2, w, h) and the image are then drawn in the turned frame,
\* so the w x h rectangle is turned about the slot's centre.
CanvasSlotLayer(slot) ==
    SlotLayer(slot.width, slot.height,
              slot.width * AbsCosMilli(slot.rotation) + slot.height * AbsSinMilli(slot.rotation),
              slot.width * AbsSinMilli(slot.rotation) + slot.height * AbsCosMilli(slot.rotation),
              2000 * slot.x + 1000 * slot.width,
              2000 * slot.y + 1000 * slot.height)

\* The video builder (system.ipc.ts:330-368): crop=w:h, then the rotate stage
\* with the size it declares, then the overlay at finalX:finalY.
VideoSlotLayer(slot) ==
    LET stage == rotFilter(slot)
        boxW == IF stage = None THEN 1000 * slot.width ELSE stage.owMilli
        boxH == IF stage = None THEN 1000 * slot.height ELSE stage.ohMilli
    IN  SlotLayer(slot.width, slot.height, boxW, boxH,
                  2000 * finalX(slot) + boxW, 2000 * finalY(slot) + boxH)

\* ImageProcessor.composite (part_010:46-69): the photo is turned first,
\* then resized with fit 'cover' to w x h, and that upright w x h image is
\* put at left = x, top = y.
SharpSlotLayer(slot) ==
    SlotLayer(slot.width, slot.height, 1000 * slot.width, 1000 * slot.height,
              2000 * slot.x + 1000 * slot.width,
              2000 * slot.y + 1000 * slot.height)

\* The three compositors are given the same slot (a slot of the editor, which
\* always has its rotation).
ComposeSlot ==
    /\ pc = "idle"
    /\ layers = None
    /\ geomSlot # None
    /\ "rotation" \in DOMAIN geomSlot
    /\ layers' = [canvas |-> CanvasSlotLayer(geomSlot),
                  video |-> VideoSlotLayer(geomSlot),
                  sharp |-> SharpSlotLayer(geomSlot)]
    /\ UNCHANGED pc
    /\ UNCHANGED outsideContract

\* ------------------------------------------------------ useSessionStore

\* The store as created (part_004:243-245); no call was made yet.
SessionAtRest ==
    /\ currentSession = None
    /\ storeCall = None

\* The arguments of the calls: slot ids, image paths, and the updates of
\* updatePhoto, a Partial<CapturedPhoto> (part_004:237), which may carry any
\* of the fields of a photo, its slotId included.
StoreSlotIds == {"s1", "s2"}
StoreImages == {"shot.jpg", "retake.jpg"}
PhotoUpdates ==
    {[imagePath |-> "edited.jpg"], [filter |-> "grayscale"]}
        \cup {[slotId |-> id] : id \in StoreSlotIds}

\* A call of the store and the photos it found.
StoreCall(op, slotId, arg) == [op |-> op, slotId |-> slotId, arg |-> arg, before |-> photos]

\* An addPhoto that keeps the photos the slot already has.
withoutSlot_Keep(list, slotId) == list

\* state.photos.filter(p => p.slotId !== slotId)
withoutSlot(list, slotId) == SelectSeq(list, LAMBDA p : p.slotId # slotId)

\* { ...p, ...updates }
Spread(p, updates) ==
    [k \in DOMAIN p \cup DOMAIN updates |-> IF k \in DOMAIN updates THEN updates[k] ELSE p[k]]

\* startSession (part_004:247-255)
StoreStartSession ==
    /\ pc = "idle"
    /\ \E frameId \in {"f1", "f2"} :
          /\ currentSession' = [frameId |-> frameId, photos |-> <<>>]
          /\ storeCall' = StoreCall("startSession", "", frameId)
    /\ photos' = <<>>
    /\ UNCHANGED <<pc, frame>>
    /\ UNCHANGED outsideSession

\* endSession (part_004:257-260)
StoreEndSession ==
    /\ pc = "idle"
    /\ currentSession' = None
    /\ photos' = <<>>
    /\ storeCall' = StoreCall("endSession", "", "")
    /\ UNCHANGED <<pc, frame>>
    /\ UNCHANGED outsideSession

\* addPhoto (part_004:262-272)
StoreAddPhoto ==
    /\ pc = "idle"
    /\ \E slotId \in StoreSlotIds, imagePath \in StoreImages :
          LET newPhoto == [slotId |-> slotId, imagePath |-> imagePath, videoPath |-> ""]
          IN  /\ Len(withoutSlot(photos, slotId)) < MaxSessionPhotos
              /\ photos' = Append(withoutSlot(photos, slotId), newPhoto)
              /\ storeCall' = StoreCall("addPhoto", slotId, imagePath)
    /\ UNCHANGED <<pc, frame, currentSession>>
    /\ UNCHANGED outsideSession

\* updatePhoto (part_004:274-278)
StoreUpdatePhoto ==
    /\ pc = "idle"
    /\ \E slotId \in StoreSlotIds, updates \in PhotoUpdates :
          /\ photos' = [k \in 1..Len(photos) |->
                           IF photos[k].slotId = slotId THEN Spread(photos[k], updates)
                           ELSE photos[k]]
          /\ storeCall' = StoreCall("updatePhoto", slotId, updates)
    /\ UNCHANGED <<pc, frame, currentSession>>
    /\ UNCHANGED outsideSession

\* removePhoto (part_004:280-282)
StoreRemovePhoto ==
    /\ pc = "idle"
    /\ \E slotId \in StoreSlotIds :
          /\ photos' = withoutSlot(photos, slotId)
          /\ storeCall' = StoreCall("removePhoto", slotId, "")
    /\ UNCHANGED <<pc, frame, currentSession>>
    /\ UNCHANGED outsideSession

\* --------------------------------------------------------- SessionTimer

\* The component is not mounted; timeouts counts the calls of onTimeout made
\* by the mounted component.
Unmounted ==
    [mounted |-> FALSE, duration |-> 0, enabled |-> FALSE, timeLeft |-> 0,
     interval |-> FALSE, timeouts |-> 0]

TimerAtRest == timer = Unmounted

\* The first render and its effects: useState(duration), setTimeLeft(duration)
\* and, when enabled, the interval (SessionTimer.tsx:13-37).
TimerMount ==
    /\ pc = "idle"
    /\ ~timer.mounted
    /\ \E duration \in 1..MaxDuration, enabled \in BOOLEAN :
          timer' = [mounted |-> TRUE, duration |-> duration, enabled |-> enabled,
                    timeLeft |-> duration, interval |-> enabled, timeouts |-> 0]
    /\ UNCHANGED pc
    /\ UNCHANGED outsideTimer

\* The interval fires: the updater of setTimeLeft (SessionTimer.tsx:26-33).
TimerTick ==
    /\ pc = "idle"
    /\ timer.mounted
    /\ timer.interval
    /\ IF timer.timeLeft <= 1
       THEN /\ timer.timeouts < MaxTimeouts
            /\ timer' = [timer EXCEPT !.interval = FALSE,
                                      !.timeouts = timer.timeouts + 1,
                                      !.timeLeft = 0]
       ELSE timer' = [timer EXCEPT !.timeLeft = timer.timeLeft - 1]
    /\ UNCHANGED pc
    /\ UNCHANGED outsideTimer

\* The page renders again and hands the timer a new onTimeout (the arrow
\* function of part_005:1530 is a new one at every render): the effect of
\* SessionTimer.tsx:22-37 is cleaned up and run again.
TimerNewCallback ==
    /\ pc = "idle"
    /\ timer.mounted
    /\ timer' = [timer EXCEPT !.interval = timer.enabled]
    /\ UNCHANGED pc
    /\ UNCHANGED outsideTimer

\* enabled changes (config.sessionTimerEnabled): the same effect runs again.
TimerSetEnabled ==
    /\ pc = "idle"
    /\ timer.mounted
    /\ timer' = [timer EXCEPT !.enabled = ~timer.enabled, !.interval = ~timer.enabled]
    /\ UNCHANGED pc
    /\ UNCHANGED outsideTimer

\* duration changes: setTimeLeft(duration) (SessionTimer.tsx:17-19).
TimerSetDuration ==
    /\ pc = "idle"
    /\ timer.mounted
    /\ \E duration \in (1..MaxDuration) \ {timer.duration} :
          timer' = [timer EXCEPT !.duration = duration, !.timeLeft = duration]
    /\ UNCHANGED pc
    /\ UNCHANGED outsideTimer

\* The page goes away: the cleanup of the effect clears the interval.
TimerUnmount ==
    /\ pc = "idle"
    /\ timer.mounted
    /\ timer' = Unmounted
    /\ UNCHANGED pc
    /\ UNCHANGED outsideTimer

\* -------------------------------------------------------- useFrameStore

\* const MAX_HISTORY_SIZE = 50
MAX_HISTORY_SIZE == 50

\* The store as created (part_004:117-120).
FrameStoreAtRest ==
    /\ frames = <<>>
    /\ activeFrame = None
    /\ history = <<>>
    /\ future = <<>>
    /\ uuid = 0
    /\ storeCalls = <<>>

\* The values of a numeric field: a number, NaN, or the null that JSON puts
\* in the place of NaN.
Number(n) == [kind |-> "number", n |-> n]
NaN == [kind |-> "NaN", n |-> 0]
Null == [kind |-> "null", n |-> 0]

\* parseInt(e.target.value) of the canvas width field (part_005:453): the
\* number typed, NaN when the field was emptied.
WidthTexts == {"600", ""}
parseInt(text) == IF text = "600" THEN Number(600) ELSE NaN

\* A slot as addSlot makes it (part_004:151-159) from handleAddSlot's
\* arguments (part_005:277-282); duplicateOfSlotId is 0 when it is undefined
\* or absent, which a copy through JSON does not tell apart.
NewSlot(id, n) == [id |-> id, x |-> 50 + n * 30, duplicateOfSlotId |-> 0]

\* A frame as handleFrameUpload adds it (part_005:248-254).
NewFrame(id) == [id |-> id, canvasWidth |-> Number(1200), slots |-> <<>>]

\* JSON.parse(JSON.stringify(frames)): strings and finite numbers come back
\* as they were, NaN comes back as null.
JsonNumber(v) == IF v.kind = "NaN" THEN Null ELSE v
JsonCopy(fs) == [i \in 1..Len(fs) |-> [fs[i] EXCEPT !.canvasWidth = JsonNumber(@)]]

\* saveToHistory (part_004:106-114): the history the mutators set.
saveToHistory ==
    LET newHistory == Append(history, JsonCopy(frames))
    IN  IF Len(newHistory) > MAX_HISTORY_SIZE THEN Tail(newHistory) ELSE newHistory

\* A call and the state it found.
FrameCall(op) ==
    [op |-> op, frames |-> frames, history |-> history, future |-> future]

\* set((state) => ({ ...saveToHistory(), frames: ... })) of the mutators.
Mutate(op, newFrames) ==
    /\ Len(storeCalls) < MaxCalls
    /\ frames' = newFrames
    /\ history' = saveToHistory
    /\ future' = <<>>
    /\ storeCalls' = Append(storeCalls, FrameCall(op))

\* The frames with frame f replaced.
WithFrame(f, value) == [frames EXCEPT ![f] = value]

\* seq.filter: the sequence without the entries whose id is id.
WithoutId(seq, id) == SelectSeq(seq, LAMBDA e : e.id # id)

\* persist (part_004:220-224) reads the frames kept in localStorage when the
\* application starts: here a frame with one or two slots, made in an earlier
\* run. history and future are not persisted.
Rehydrate ==
    /\ pc = "idle"
    /\ storeCalls = <<>>
    /\ uuid = 0
    /\ \E n \in 1..2 :
          /\ frames' = <<[id |-> 1, canvasWidth |-> Number(1200),
                          slots |-> [k \in 1..n |-> NewSlot(k + 1, k - 1)]]>>
          /\ uuid' = n + 1
    /\ UNCHANGED <<pc, activeFrame, history, future, storeCalls>>
    /\ UNCHANGED outsideFrameStore

\* addFrame (part_004:122-129)
FrameStoreAddFrame ==
    /\ pc = "idle"
    /\ Len(frames) < MaxStoreFrames
    /\ Mutate("addFrame", Append(frames, NewFrame(uuid + 1)))
    /\ uuid' = uuid + 1
    /\ UNCHANGED <<pc, activeFrame>>
    /\ UNCHANGED outsideFrameStore

\* updateFrame (part_004:131-137) with the width typed in the editor.
FrameStoreUpdateFrame ==
    /\ pc = "idle"
    /\ \E f \in 1..Len(frames), text \in WidthTexts :
          /\ Mutate("updateFrame", WithFrame(f, [frames[f] EXCEPT !.canvasWidth = parseInt(text)]))
          /\ activeFrame' =
                IF activeFrame # None /\ activeFrame.id = frames[f].id
                THEN [activeFrame EXCEPT !.canvasWidth = parseInt(text)]
                ELSE activeFrame
    /\ UNCHANGED <<pc, uuid>>
    /\ UNCHANGED outsideFrameStore

\* deleteFrame (part_004:139-143)
FrameStoreDeleteFrame ==
    /\ pc = "idle"
    /\ \E f \in 1..Len(frames) :
          /\ Mutate("deleteFrame", WithoutId(frames, frames[f].id))
          /\ activeFrame' =
                IF activeFrame # None /\ activeFrame.id = frames[f].id THEN None
                ELSE activeFrame
    /\ UNCHANGED <<pc, uuid>>
    /\ UNCHANGED outsideFrameStore

\* setActiveFrame (part_004:145-148)
FrameStoreSetActiveFrame ==
    /\ pc = "idle"
    /\ Len(storeCalls) < MaxCalls
    /\ \E f \in 1..Len(frames) : activeFrame' = frames[f]
    /\ storeCalls' = Append(storeCalls, FrameCall("setActiveFrame"))
    /\ UNCHANGED <<pc, frames, history, future, uuid>>
    /\ UNCHANGED outsideFrameStore

\* addSlot (part_004:150-169), called by handleAddSlot.
FrameStoreAddSlot ==
    /\ pc = "idle"
    /\ \E f \in 1..Len(frames) :
          /\ Len(frames[f].slots) < MaxStoreSlots
          /\ Mutate("addSlot",
                    WithFrame(f, [frames[f] EXCEPT
                                     !.slots = Append(@, NewSlot(uuid + 1, Len(frames[f].slots)))]))
    /\ uuid' = uuid + 1
    /\ UNCHANGED <<pc, activeFrame>>
    /\ UNCHANGED outsideFrameStore

\* What the 'Duplicate Of' selector of slot k offers (part_005:643-651):
\* none, or a slot of the frame other than k that is not a duplicate.
DuplicateOptions(slots, k) ==
    {0} \cup {slots[j].id : j \in {i \in 1..Len(slots) :
                                      slots[i].id # slots[k].id /\ slots[i].duplicateOfSlotId = 0}}

\* updateSlot (part_004:171-181) with the choice made in the selector.
FrameStoreSetDuplicate ==
    /\ pc = "idle"
    /\ \E f \in 1..Len(frames) :
          \E k \in 1..Len(frames[f].slots) :
             \E choice \in DuplicateOptions(frames[f].slots, k) \ {frames[f].slots[k].duplicateOfSlotId} :
                Mutate("updateSlot",
                       WithFrame(f, [frames[f] EXCEPT !.slots[k].duplicateOfSlotId = choice]))
    /\ UNCHANGED <<pc, activeFrame, uuid>>
    /\ UNCHANGED outsideFrameStore

\* updateSlot with the x of an emptied field: parseInt('') || 0
\* (part_005:593).
FrameStoreMoveSlot ==
    /\ pc = "idle"
    /\ \E f \in 1..Len(frames) :
          \E k \in 1..Len(frames[f].slots) :
             Mutate("updateSlot", WithFrame(f, [frames[f] EXCEPT !.slots[k].x = 0]))
    /\ UNCHANGED <<pc, activeFrame, uuid>>
    /\ UNCHANGED outsideFrameStore

\* deleteSlot (part_004:183-190)
FrameStoreDeleteSlot ==
    /\ pc = "idle"
    /\ \E f \in 1..Len(frames) :
          \E k \in 1..Len(frames[f].slots) :
             Mutate("deleteSlot",
                    WithFrame(f, [frames[f] EXCEPT !.slots = WithoutId(@, frames[f].slots[k].id)]))
    /\ UNCHANGED <<pc, activeFrame, uuid>>
    /\ UNCHANGED outsideFrameStore

\* undo (part_004:193-203)
FrameStoreUndo ==
    /\ pc = "idle"
    /\ Len(storeCalls) < MaxCalls
    /\ IF Len(history) = 0
       THEN UNCHANGED <<frames, history, future>>
       ELSE /\ frames' = history[Len(history)]
            /\ history' = SubSeq(history, 1, Len(history) - 1)
            /\ future' = <<JsonCopy(frames)>> \o future
    /\ storeCalls' = Append(storeCalls, FrameCall("undo"))
    /\ UNCHANGED <<pc, activeFrame, uuid>>
    /\ UNCHANGED outsideFrameStore

\* redo (part_004:205-214)
FrameStoreRedo ==
    /\ pc = "idle"
    /\ Len(storeCalls) < MaxCalls
    /\ IF Len(future) = 0
       THEN UNCHANGED <<frames, history, future>>
       ELSE /\ frames' = future[1]
            /\ history' = Append(history, JsonCopy(frames))
            /\ future' = Tail(future)
    /\ storeCalls' = Append(storeCalls, FrameCall("redo"))
    /\ UNCHANGED <<pc, activeFrame, uuid>>
    /\ UNCHANGED outsideFrameStore

\* ------------------------------------------------- the specifications

Init ==
    /\ pc = "idle"
    /\ params = None
    /\ validInputs = <<>>
    /\ inputs = <<>>
    /\ filterGraph = <<>>
    /\ savedFiles = <<>>
    /\ engineRuns = <<>>
    /\ engineError = None
    /\ response = None
    /\ geomSlot = None
    /\ geomOut = None
    /\ frame = None
    /\ photos = <<>>
    /\ canvasOps = <<>>
    /\ compositeDataUrl = None
    /\ selectedFilter = "none"
    /\ error = None
    /\ printed = <<>>
    /\ uploads = <<>>
    /\ videoUrls = <<>>
    /\ previewVideos = <<>>
    /\ sharpIn = None
    /\ photoLayers = <<>>
    /\ sharpOut = None
    /\ config = None
    /\ captureState = "idle"
    /\ countdown = 0
    /\ currentSlotIndex = 0
    /\ slotIndex = 0
    /\ fitIn = None
    /\ fitOut = None
    /\ GifAtRest
    /\ FrameStoreAtRest
    /\ TimerAtRest
    /\ SessionAtRest
    /\ ContractAtRest
    /\ BuildAtRest

Next ==
    \/ Invoke
    \/ OpenPostProcessing
    \/ generateCompositeFromPhotos
    \/ setSelectedFilter
    \/ handlePrint
    \/ handleEmailSubmit
    \/ handleGenerateQR
    \/ renderLivePreview
    \/ ClosePostProcessing
    \/ ImageComposite
    \/ ImageCompositeReturn
    \/ FfmpegEnd
    \/ FfmpegError
    \/ LegacyCopy
    \/ Respond
    \/ Return

Spec == Init /\ [][Next]_vars

InitGeom ==
    /\ pc = "idle"
    /\ params = None
    /\ validInputs = <<>>
    /\ inputs = <<>>
    /\ filterGraph = <<>>
    /\ savedFiles = <<>>
    /\ engineRuns = <<>>
    /\ engineError = None
    /\ response = None
    /\ geomSlot \in GeomSlots
    /\ geomOut = None
    /\ frame = None
    /\ photos = <<>>
    /\ canvasOps = <<>>
    /\ compositeDataUrl = None
    /\ selectedFilter = "none"
    /\ error = None
    /\ printed = <<>>
    /\ uploads = <<>>
    /\ videoUrls = <<>>
    /\ previewVideos = <<>>
    /\ sharpIn = None
    /\ photoLayers = <<>>
    /\ sharpOut = None
    /\ config = None
    /\ captureState = "idle"
    /\ countdown = 0
    /\ currentSlotIndex = 0
    /\ slotIndex = 0
    /\ fitIn = None
    /\ fitOut = None
    /\ GifAtRest
    /\ FrameStoreAtRest
    /\ TimerAtRest
    /\ SessionAtRest
    /\ ContractAtRest
    /\ BuildAtRest

NextGeom == ComputePlacement

SpecGeom == InitGeom /\ [][NextGeom]_vars

NextSave ==
    \/ InvokeSave
    \/ FfmpegEnd
    \/ FfmpegError
    \/ LegacyCopy
    \/ Respond
    \/ Return

SpecSave == Init /\ [][NextSave]_vars

InitCover ==
    /\ pc = "idle"
    /\ params = None
    /\ validInputs = <<>>
    /\ inputs = <<>>
    /\ filterGraph = <<>>
    /\ savedFiles = <<>>
    /\ engineRuns = <<>>
    /\ engineError = None
    /\ response = None
    /\ geomSlot = None
    /\ geomOut = None
    /\ frame = None
    /\ photos = <<>>
    /\ canvasOps = <<>>
    /\ compositeDataUrl = None
    /\ selectedFilter = "none"
    /\ error = None
    /\ printed = <<>>
    /\ uploads = <<>>
    /\ videoUrls = <<>>
    /\ previewVideos = <<>>
    /\ sharpIn = None
    /\ photoLayers = <<>>
    /\ sharpOut = None
    /\ config = None
    /\ captureState = "idle"
    /\ countdown = 0
    /\ currentSlotIndex = 0
    /\ slotIndex = 0
    /\ fitIn \in FitInputs
    /\ fitOut = None
    /\ GifAtRest
    /\ FrameStoreAtRest
    /\ TimerAtRest
    /\ SessionAtRest
    /\ ContractAtRest
    /\ BuildAtRest

NextCover == ComputeCoverFit

SpecCover == InitCover /\ [][NextCover]_vars

NextGif ==
    \/ GifClockTick
    \/ \E j \in GifJobIds : GifInvoke(j)
    \/ \E j \in GifJobIds : GifFfmpegEnd(j)
    \/ \E j \in GifJobIds : GifFfmpegError(j)
    \/ \E j \in GifJobIds : GifCleanup(j)

SpecGif == Init /\ [][NextGif]_vars

NextBuild == BuildComposite

SpecBuild == Init /\ [][NextBuild]_vars

\* The capture page as it is mounted: a frame, the timer settings, a new
\* session without photos.
InitCapture ==
    /\ pc = "capture"
    /\ params = None
    /\ validInputs = <<>>
    /\ inputs = <<>>
    /\ filterGraph = <<>>
    /\ savedFiles = <<>>
    /\ engineRuns = <<>>
    /\ engineError = None
    /\ response = None
    /\ geomSlot = None
    /\ geomOut = None
    /\ frame \in CaptureFrames
    /\ photos = <<>>
    /\ canvasOps = <<>>
    /\ compositeDataUrl = None
    /\ selectedFilter = "none"
    /\ error = None
    /\ printed = <<>>
    /\ uploads = <<>>
    /\ videoUrls = <<>>
    /\ previewVideos = <<>>
    /\ sharpIn = None
    /\ photoLayers = <<>>
    /\ sharpOut = None
    /\ config \in Configs
    /\ captureState = "idle"
    /\ countdown = config.countdownDuration
    /\ currentSlotIndex = 0
    /\ slotIndex = 0
    /\ fitIn = None
    /\ fitOut = None
    /\ GifAtRest
    /\ FrameStoreAtRest
    /\ TimerAtRest
    /\ SessionAtRest
    /\ ContractAtRest
    /\ BuildAtRest

NextCapture ==
    \/ handleReady
    \/ handleSlotClick
    \/ CountdownTick
    \/ completeCapture
    \/ PreviewTimeout

SpecCapture == InitCapture /\ [][NextCapture]_vars

NextContract == ComposeSlot

SpecContract == InitGeom /\ [][NextContract]_vars

NextSession ==
    \/ StoreStartSession
    \/ StoreEndSession
    \/ StoreAddPhoto
    \/ StoreUpdatePhoto
    \/ StoreRemovePhoto

SpecSession == Init /\ [][NextSession]_vars

NextTimer ==
    \/ TimerMount
    \/ TimerTick
    \/ TimerNewCallback
    \/ TimerSetEnabled
    \/ TimerSetDuration
    \/ TimerUnmount

SpecTimer == Init /\ [][NextTimer]_vars

NextFrameStore ==
    \/ Rehydrate
    \/ FrameStoreAddFrame
    \/ FrameStoreUpdateFrame
    \/ FrameStoreDeleteFrame
    \/ FrameStoreSetActiveFrame
    \/ FrameStoreAddSlot
    \/ FrameStoreSetDuplicate
    \/ FrameStoreMoveSlot
    \/ FrameStoreDeleteSlot
    \/ FrameStoreUndo
    \/ FrameStoreRedo

SpecFrameStore == Init /\ [][NextFrameStore]_vars

\* ------------------------------------------------------------- claims

\* The centre of the placed bounding box and of the unrotated slot, in
\* 1/2000 pixel.
BoxCentreX2000 == 2000 * geomOut.finalX + geomOut.wRotMilli
BoxCentreY2000 == 2000 * geomOut.finalY + geomOut.hRotMilli
SlotCentreX2000 == 2000 * geomSlot.x + 1000 * geomSlot.width
SlotCentreY2000 == 2000 * geomSlot.y + 1000 * geomSlot.height

GraphBuilt == filterGraph # <<>>

\* The chains of the graph that read the label l.
Readers(l) == {j \in 1..Len(filterGraph) : filterGraph[j].inA = l \/ filterGraph[j].inB = l}

\* The chains of the graph that write the label l.
Writers(l) == {j \in 1..Len(filterGraph) : filterGraph[j].out = l}

\* C2: with N valid inputs the command receives the background as input 0,
\* the k-th valid input as input k+1, which only the chain of source k reads
\* as [k+1:v], and the frame overlay last as input N+1, read as [N+1:v] by the
\* final stage only; no input is merged with another of the same path.
C2_InputOrder ==
    GraphBuilt =>
        LET N == Len(validInputs)
        IN  /\ Len(inputs) = N + 2
            /\ Len(filterGraph) = 2 * N + 1
            /\ inputs[1].kind = "lavfi"
            /\ \A k \in 0..(N - 1) :
                 /\ inputs[k + 2].kind = "file"
                 /\ inputs[k + 2].path = validInputs[k + 1].path
                 /\ Readers(InLabel(k + 1)) = {k + 1}
                 /\ filterGraph[k + 1].kind = "source"
                 /\ filterGraph[k + 1].out = VLabel(k)
            /\ inputs[N + 2].kind = "file"
            /\ inputs[N + 2].path = cleanUrl(params.overlay.path)
            /\ Readers(InLabel(N + 1)) = {2 * N + 1}
            /\ \A j \in 1..Len(filterGraph) :
                 /\ filterGraph[j].inA.t = "in" => filterGraph[j].inA.n \in 0..(N + 1)
                 /\ filterGraph[j].inB.t = "in" => filterGraph[j].inB.n \in 0..(N + 1)

\* A graph built after a video was skipped, in which two valid inputs are
\* the very same file.
C2_Witness ==
    /\ pc = "ffmpeg"
    /\ Len(params.videos) = 3
    /\ Len(validInputs) = 2
    /\ validInputs[1].path = validInputs[2].path
    /\ inputs[2].path = inputs[3].path

\* C3: the overlays are chained one after the other in input order: the
\* first reads the base [0:v] and layer v0, overlay k >= 1 reads the output
\* of overlay k-1 and layer vk, and every label is written once and read once.
C3_SequentialChain ==
    GraphBuilt =>
        LET N == Len(validInputs)
        IN  /\ Len(filterGraph) = 2 * N + 1
            /\ \A k \in 0..(N - 1) :
                 LET ov == filterGraph[N + k + 1]
                 IN  /\ ov.kind = "overlay"
                     /\ ov.inA = IF k = 0 THEN InLabel(0) ELSE filterGraph[N + k].out
                     /\ ov.inB = filterGraph[k + 1].out
                     /\ filterGraph[k + 1].inA = InLabel(validInputs[k + 1].index + 1)
                     /\ validInputs[k + 1].index = k
            /\ \A j \in 1..(2 * N) :
                 /\ Cardinality(Writers(filterGraph[j].out)) = 1
                 /\ Cardinality(Readers(filterGraph[j].out)) = 1
                 /\ \A r \in Readers(filterGraph[j].out) : r > j
            /\ Cardinality(Readers(InLabel(0))) = 1
            /\ LET n == IF Len(params.videos) < Len(params.frameConfig.slots)
                        THEN Len(params.videos) ELSE Len(params.frameConfig.slots)
                   Kept(v) == v.path # "" /\ existsSync(cleanUrl(v.path))
                   kept == SelectSeq(SubSeq(params.videos, 1, n), Kept)
               IN  [k \in 1..N |-> validInputs[k].path]
                       = [k \in 1..Len(kept) |-> cleanUrl(kept[k].path)]

\* A graph of three source layers.
C3_Witness ==
    /\ pc = "ffmpeg"
    /\ Len(validInputs) = 3
    /\ filterGraph[6].inA = BgLabel(1)

\* C4: the first overlay onto the base carries shortest=1; no later source
\* overlay and not the frame overlay carries it.
C4_ShortestOnlyFirst ==
    GraphBuilt =>
        LET N == Len(validInputs)
        IN  /\ Len(filterGraph) = 2 * N + 1
            /\ filterGraph[N + 1].inA = InLabel(0)
            /\ filterGraph[N + 1].shortest = "1"
            /\ \A j \in 1..Len(filterGraph) :
                 (filterGraph[j].kind = "overlay" /\ j # N + 1) => filterGraph[j].shortest # "1"

\* A graph with a second source overlay, which carries shortest=0.
C4_Witness ==
    /\ pc = "ffmpeg"
    /\ Len(validInputs) >= 2
    /\ filterGraph[Len(validInputs) + 2].shortest = "0"

\* C5: the last stage of every graph overlays the frame image, at (0,0), on
\* the output of the last source overlay and writes the final label, however
\* many source layers there are; nothing is composited after it.
C5_FrameOverlayLast ==
    GraphBuilt =>
        LET N == Len(validInputs)
            last == filterGraph[Len(filterGraph)]
        IN  /\ N >= 1
            /\ Len(filterGraph) = 2 * N + 1
            /\ Len(inputs) = N + 2
            /\ last.kind = "overlay"
            /\ last.inA = filterGraph[2 * N].out
            /\ filterGraph[2 * N].kind = "overlay"
            /\ filterGraph[2 * N].inB = VLabel(N - 1)
            /\ last.inB.t = "in"
            /\ inputs[last.inB.n + 1].path = cleanUrl(params.overlay.path)
            /\ last.x = 0 /\ last.y = 0
            /\ last.out = OutLabel
            /\ Writers(OutLabel) = {Len(filterGraph)}
            /\ Readers(OutLabel) = {}

\* A graph of a single source layer, the frame overlay right after it.
C5_Witness ==
    /\ pc = "ffmpeg"
    /\ Len(validInputs) = 1
    /\ filterGraph[3].inA = BgLabel(0)
    /\ filterGraph[3].out = OutLabel

\* The slots of the frame on the page that are duplicates of another slot.
DuplicateSlots ==
    IF frame = None THEN {}
    ELSE {i \in 1..Len(frame.slots) : frame.slots[i].duplicateOfSlotId # ""}

\* The photos of the store captured for slot id.
PhotosOfSlot(id) == {photos[i] : i \in {j \in 1..Len(photos) : photos[j].slotId = id}}

\* What was drawn on the canvas for the slot at position i.
DrawnFor(i) ==
    {canvasOps[k] : k \in {j \in 1..Len(canvasOps) :
        canvasOps[j].op = "drawPhoto" /\ canvasOps[j].slotId = frame.slots[i].id}}

\* C6: a slot B with duplicateOfSlotId = A.id gets the asset of A: the still
\* drawn in B's own place, size and rotation is the image of A's photo (and
\* nothing is drawn when A has no photo that loads); B's entry of videoUrls is
\* the uploaded video of A or empty, and equal to A's own entry; B's preview
\* video is the video of A's photo. A photo stored under B's own id is never
\* the one used.
C6_DuplicateResolvesToSource ==
    \A b \in DuplicateSlots :
        LET B == frame.slots[b]
            ofA == PhotosOfSlot(B.duplicateOfSlotId)
        IN  /\ pc \in {"composited", "qr"} =>
                DrawnFor(b) =
                    {CanvasOp("drawPhoto", B.id, ph.imagePath, B.x, B.y, B.width,
                              B.height, B.rotation) :
                        ph \in {q \in ofA : ImageLoads(q.imagePath)}}
            /\ pc = "qr" =>
                /\ videoUrls[b] \in {"", UploadedUrl(B.duplicateOfSlotId)}
                /\ ofA = {} => videoUrls[b] = ""
                /\ \A a \in 1..Len(frame.slots) :
                      (frame.slots[a].id = B.duplicateOfSlotId
                         /\ frame.slots[a].duplicateOfSlotId = "")
                      => videoUrls[b] = videoUrls[a]
            /\ pc = "preview" =>
                IF \E ph \in ofA : ph.videoPath # ""
                THEN \E ph \in ofA :
                        /\ previewVideos[b].src = ph.videoPath
                        /\ previewVideos[b].key = B.id
                        /\ previewVideos[b].width = B.width
                ELSE previewVideos[b] = None

\* The second slot duplicates the first, both have a photo of their own in
\* the store, and the still and the video of the first are used for both.
C6_Witness ==
    /\ pc = "qr"
    /\ Len(frame.slots) >= 2
    /\ frame.slots[1].duplicateOfSlotId = ""
    /\ frame.slots[2].duplicateOfSlotId = frame.slots[1].id
    /\ PhotosOfSlot(frame.slots[1].id) # {}
    /\ PhotosOfSlot(frame.slots[2].id) # {}
    /\ \E op \in DrawnFor(2) :
          /\ op.src = "p1.jpg"
          /\ op.rotation # frame.slots[1].rotation
          /\ op.y # frame.slots[1].y
    /\ videoUrls[2] = "https://cdn/v1"
    /\ videoUrls[1] = videoUrls[2]

\* ---- C8: the slots without an asset

\* The videos of the call whose file can be used, by position.
UsableVideos ==
    {i \in 1..Len(params.videos) :
        /\ params.videos[i].path # ""
        /\ i <= Len(params.frameConfig.slots)
        /\ existsSync(cleanUrl(params.videos[i].path))}

\* The slots of the frame on the page whose photo is in the store and loads.
DrawableSlots ==
    {i \in 1..Len(frame.slots) :
        \E ph \in PhotosOfSlot(IF frame.slots[i].duplicateOfSlotId # ""
                               THEN frame.slots[i].duplicateOfSlotId
                               ELSE frame.slots[i].id) : ImageLoads(ph.imagePath)}

\* The stages of the graph that scale a source for its slot, and the slots
\* they were built for, in order.
SourceStages == SelectSeq(filterGraph, LAMBDA st : st.kind = "source")
PhotoOps == SelectSeq(canvasOps, LAMBDA op : op.op = "drawPhoto")
PhotoLayersOnly == SelectSeq(photoLayers, LAMBDA l : l.input = "shot.jpg")

\* The k-th smallest element of a set of numbers.
RECURSIVE Nth(_, _)
Nth(S, k) ==
    LET m == CHOOSE x \in S : \A y \in S : x <= y
    IN  IF k = 1 THEN m ELSE Nth(S \ {m}, k - 1)

InVideoCall == pc \in {"ffmpeg", "respond", "returned"} /\ CompositeBranch(params)
StillDone == pc \in {"composited", "qr"} /\ error = None

\* C8, the graph builder: a video without a file is left out; the graph is
\* still built when another video and the template are there, with one source
\* chain per usable video, for that video's own slot and file, in order, and
\* with the frame overlay as the last stage; the call still answers success.
C8_VideoSkipsMissing ==
    InVideoCall =>
        /\ (UsableVideos # {} /\ existsSync(cleanUrl(params.overlay.path))) => GraphBuilt
        /\ GraphBuilt =>
              /\ Len(SourceStages) = Cardinality(UsableVideos)
              /\ Len(filterGraph) = 2 * Cardinality(UsableVideos) + 1
              /\ \A k \in 1..Len(SourceStages) :
                    LET i == Nth(UsableVideos, k)
                        slot == params.frameConfig.slots[i]
                    IN  /\ SourceStages[k].w = slot.width
                        /\ SourceStages[k].h = slot.height
                        /\ SourceStages[k].rot = slot.rotation
                        /\ inputs[k + 1].path = cleanUrl(params.videos[i].path)
              /\ filterGraph[Len(filterGraph)].out = OutLabel
              /\ inputs[Len(inputs)].path = cleanUrl(params.overlay.path)
        /\ pc = "returned" => response.success

\* C8, the still: a slot without a photo that loads is left out; every other
\* slot is drawn, in order, the frame is drawn last when it loads, and the
\* composite is stored.
C8_StillSkipsMissing ==
    StillDone =>
        /\ Len(PhotoOps) = Cardinality(DrawableSlots)
        /\ \A k \in 1..Len(PhotoOps) :
              PhotoOps[k].slotId = frame.slots[Nth(DrawableSlots, k)].id
        /\ ImageLoads(FileUrl(frame.overlayPath)) =>
              canvasOps[Len(canvasOps)].op = "drawFrame"
        /\ compositeDataUrl = toDataURL(canvasOps)

\* C8, ImageProcessor.composite: a photo whose file is gone is left out; the
\* others are layered in order at their slots, the frame on top, and the
\* call answers success.
C8_SharpSkipsMissing ==
    pc = "sharp" =>
        LET present == {i \in 1..Len(sharpIn.photos) : existsSync(sharpIn.photos[i])}
        IN  /\ Len(PhotoLayersOnly) = Cardinality(present)
            /\ \A k \in 1..Len(PhotoLayersOnly) :
                  /\ PhotoLayersOnly[k].left = SlotGeometryOf(Nth(present, k)).x
                  /\ PhotoLayersOnly[k].top = SlotGeometryOf(Nth(present, k)).y
            /\ existsSync(sharpIn.framePath) =>
                  photoLayers[Len(photoLayers)].input = sharpIn.framePath
            /\ sharpOut.success

\* C8: a slot without a resolvable asset is skipped silently, the rest of the
\* composite is made and the composite does not fail, in the video graph
\* builder, in the still compositor and in ImageProcessor.composite.
C8_MissingSlotSkipped ==
    /\ C8_VideoSkipsMissing
    /\ C8_StillSkipsMissing
    /\ C8_SharpSkipsMissing

\* Three videos of which the second has no file: the graph has the chains of
\* the first and the third and ends with the frame overlay.
C8_Witness ==
    /\ pc = "returned"
    /\ CompositeBranch(params)
    /\ Len(params.videos) = 3
    /\ UsableVideos = {1, 3}
    /\ Len(SourceStages) = 2
    /\ SourceStages[2].w = params.frameConfig.slots[3].width
    /\ filterGraph[Len(filterGraph)].out = OutLabel
    /\ response.success

\* Three slots of which only the first has a photo that loads: it is drawn,
\* with the frame, and the composite is stored.
C8_WitnessStill ==
    /\ pc = "composited"
    /\ Len(frame.slots) = 3
    /\ DrawableSlots = {1}
    /\ Len(PhotoOps) = 1
    /\ canvasOps[Len(canvasOps)].op = "drawFrame"
    /\ compositeDataUrl # None

\* ---- C9: no slot has an asset

\* C9: when no slot has a resolvable asset the composite fails: the video
\* call does not answer success, and the still compositor draws and stores no
\* composite.
C9_NoContentFails ==
    /\ (InVideoCall /\ UsableVideos = {}) =>
          /\ ~GraphBuilt
          /\ pc = "returned" => ~response.success
    /\ (StillDone /\ DrawableSlots = {}) =>
          /\ compositeDataUrl = None
          /\ canvasOps = <<>>

\* ---- C10: invalid geometry

\* A slot or a canvas without a positive width and height.
NonPositive(box) == box.width <= 0 \/ box.height <= 0

\* A duplicateOfSlotId that is the slot itself, another duplicate, or no slot.
MalformedDuplicate(slots, i) ==
    /\ slots[i].duplicateOfSlotId # ""
    /\ \/ slots[i].duplicateOfSlotId = slots[i].id
       \/ \A j \in 1..Len(slots) : slots[j].id # slots[i].duplicateOfSlotId
       \/ \E j \in 1..Len(slots) :
             /\ slots[j].id = slots[i].duplicateOfSlotId
             /\ slots[j].duplicateOfSlotId # ""

\* C10: a slot or canvas without a positive width and height, or a malformed
\* duplicate reference, makes the build fail before the engine is started or
\* anything is drawn: no graph, no engine run, no success for the video call,
\* and no drawing and no stored composite for the still.
C10_InvalidGeometryFailsFast ==
    /\ (InVideoCall /\ (\/ NonPositive(params.frameConfig)
                        \/ \E i \in 1..Len(params.frameConfig.slots) :
                              NonPositive(params.frameConfig.slots[i]))) =>
          /\ pc # "ffmpeg"
          /\ ~GraphBuilt
          /\ pc = "returned" => ~response.success
    /\ (StillDone /\ \E i \in 1..Len(frame.slots) : MalformedDuplicate(frame.slots, i)) =>
          /\ canvasOps = <<>>
          /\ compositeDataUrl = None

\* ---- C7: captures and duplicate slots

\* The ids of the slots of the frame that are not duplicates.
CaptureSlotIds ==
    {frame.slots[i].id : i \in {j \in 1..Len(frame.slots) : frame.slots[j].duplicateOfSlotId = ""}}

\* C7: in the capture session no countdown or capture is ever under way for
\* a slot whose duplicateOfSlotId is set, and every photo of the store has
\* the slotId of a slot of the frame that is not a duplicate.
C7_NoCaptureForDuplicate ==
    pc = "capture" =>
        /\ captureState \in {"countdown", "capturing"} =>
              SlotAt(frame.slots, slotIndex).duplicateOfSlotId = ""
        /\ \A k \in 1..Len(photos) : photos[k].slotId \in CaptureSlotIds

\* ---- C11, C12: a failed strip composite

\* The names of the files the response lists.
ListedFiles == {response.data[k].filename : k \in 1..Len(response.data)}

\* C11: when the engine reports the failure of the strip composite, the
\* response of system:save-session-locally tells the caller so: it is not a
\* plain success and carries the engine's diagnostic text.
C11_EngineFailureSurfaced ==
    (pc = "returned" /\ engineError # None) =>
        /\ ~response.success
        /\ "error" \in DOMAIN response
        /\ response.error = engineError.message

\* The strip composite of the call did not produce its file: the engine run
\* failed, no video was usable, or the frame template is not on disk.
CompositeFailed ==
    /\ CompositeBranch(params)
    /\ \/ engineError # None
       \/ UsableVideos = {}
       \/ ~existsSync(cleanUrl(params.overlay.path))

\* The stills of the call that are there to be saved: a strip or GIF given as
\* a base64 data URL, a photo given as one or as the path of a file on disk.
StillsThere ==
    (IF params.stripDataUrl \in {"data:image/jpeg;base64,c3RyaXA="} THEN {"strip.jpg"} ELSE {})
    \cup (IF params.gifDataUrl \in {"data:image/gif;base64,R0lGODlh"} THEN {"gif.gif"} ELSE {})
    \cup {PhotoFilename(i) : i \in {j \in 1..Len(params.photos) :
            params.photos[j] \in {"data:image/jpeg;base64,cGhvdG8=", "shot.jpg"}}}

\* C12: a failed strip composite does not fail the save: the call answers
\* success, lists the strip, the GIF and every photo that is there, and does
\* not list the composite's file.
C12_StillsSurviveVideoFailure ==
    (pc = "returned" /\ CompositeFailed) =>
        /\ response.success
        /\ ListedFiles = StillsThere
        /\ Len(response.data) = Cardinality(StillsThere)
        /\ "live_video.mp4" \notin ListedFiles

\* The engine failed on a call with a strip, a GIF and two photos, of which
\* one is missing: the three stills are listed, the composite is not.
C12_Witness ==
    /\ pc = "returned"
    /\ engineError # None
    /\ params.stripDataUrl # ""
    /\ params.gifDataUrl # ""
    /\ params.photos = <<"gone.jpg", "shot.jpg">>
    /\ response.success
    /\ ListedFiles = {"strip.jpg", "gif.gif", "photo_2.jpg"}

\* ---- C13: the raw stills when the composite could not be made

\* The page holds photos and no composite: the frame of the session was not
\* found, or the drawing failed.
CompositeNotGenerated ==
    /\ pc = "post"
    /\ Len(photos) > 0
    /\ compositeDataUrl = None
    /\ (frame = None \/ error # None)

\* C13: whenever the page holds photos but the composite could not be
\* generated, an action that prints or uploads at least the raw stills can
\* still be taken.
C13_RawStillsNeverBlocked ==
    CompositeNotGenerated =>
        ENABLED (handlePrint \/ handleEmailSubmit \/ handleGenerateQR)

\* ---- C20: the duration ceiling of the engine runs

\* The run is given an output duration (-t).
HasDurationCeiling(run) ==
    \E k \in 1..Len(run.outputOptions) : run.outputOptions[k] = "-t 5"

\* C20: every engine run the call has started, the strip composite and each
\* transcode of the fallback path, is given an output-duration ceiling.
C20_EveryRunHasCeiling ==
    \A k \in 1..Len(engineRuns) : HasDurationCeiling(engineRuns[k])

\* ---- C19: the colour filter of the still compositor

\* ctx.filter when the k-th operation is made: what the last assignment
\* before it set, 'none' on a canvas that was just sized.
ActiveFilter(k) ==
    LET sets == {j \in 1..(k - 1) : canvasOps[j].op = "filter"}
    IN  IF sets = {} THEN "none"
        ELSE canvasOps[CHOOSE j \in sets : \A i \in sets : i <= j].src

ExampleSlot == [x |-> 200, y |-> 200, width |-> 400, height |-> 300, rotation |-> 90]

\* C16: for a rotation of 90, -90 or 270 degrees the bounding box used for
\* the placement is exactly (height, width), and the slot of the example is
\* placed at (250, 150).
C16_QuarterTurnBox ==
    geomOut # None =>
        /\ rotOf(geomSlot) \in {90, -90, 270} =>
              /\ geomOut.wRotMilli = 1000 * geomSlot.height
              /\ geomOut.wRotResidue = 0
              /\ geomOut.hRotMilli = 1000 * geomSlot.width
              /\ geomOut.hRotResidue = 0
        /\ geomSlot = ExampleSlot => (geomOut.finalX = 250 /\ geomOut.finalY = 150)

\* ---- C17: no rotation

C17_WitnessZero ==
    /\ geomOut # None
    /\ "rotation" \in DOMAIN geomSlot
    /\ geomSlot.rotation = 0
    /\ geomSlot.width # geomSlot.height
    /\ geomOut.finalY = geomSlot.y

\* ---- C18: the order of the stages of a source

\* The position of the first occurrence of name in seq, 0 when it is absent.
IndexOf(seq, name) ==
    LET hits == {k \in 1..Len(seq) : seq[k] = name}
    IN  IF hits = {} THEN 0 ELSE CHOOSE k \in hits : \A j \in hits : k <= j

\* C18, the graph builder: the chain of every source is the format
\* normalisation, the scale to cover, the crop to the slot's unrotated width
\* and height and, only for a rotation that is not 0, the rotation; the
\* overlay of the source reads the output of that chain.
C18_VideoStageOrder ==
    GraphBuilt =>
        LET N == Len(validInputs)
        IN  \A k \in 1..N :
                LET st == filterGraph[k]
                IN  /\ st.kind = "source"
                    /\ st.filters = IF rotOf(validInputs[k].slot) # 0
                                    THEN <<"format", "scale", "crop", "rotate">>
                                    ELSE <<"format", "scale", "crop">>
                    /\ st.w = validInputs[k].slot.width
                    /\ st.h = validInputs[k].slot.height
                    /\ filterGraph[N + k].kind = "overlay"
                    /\ filterGraph[N + k].inB = st.out

\* C18, ImageProcessor.composite: a photo is not rotated before it is scaled
\* and cropped to its slot.
C18_SharpStageOrder ==
    pc = "sharp" =>
        \A k \in 1..Len(photoLayers) :
            LET calls == photoLayers[k].calls
            IN  (photoLayers[k].rotation # 0 /\ IndexOf(calls, "rotate") # 0) =>
                    /\ IndexOf(calls, "resize") # 0
                    /\ IndexOf(calls, "resize") < IndexOf(calls, "rotate")

\* C18: for every source the stages are the format normalisation, the scale
\* to cover, the centre crop, then the rotation, then the overlay onto the
\* composite: the rotation never precedes the scale and the crop.
C18_StageOrder ==
    /\ C18_VideoStageOrder
    /\ C18_SharpStageOrder

\* C14: for every image and every slot of positive sides the cover fit draws
\* the image at least as wide and at least as high as the slot, so that the
\* clipped rectangle of the slot is covered.
C14_CoverNeverSmaller ==
    fitOut # None =>
        /\ Ge(fitOut.drawWidth, FromInt(fitIn.slot.width))
        /\ Ge(fitOut.drawHeight, FromInt(fitIn.slot.height))

\* The image is strictly wider than the slot, and as wide as the slot, by
\* their exact aspect ratios.
SourceWider(f) == f.img.width * f.slot.height > f.slot.width * f.img.height

SameAspect(f) == f.img.width * f.slot.height = f.slot.width * f.img.height

\* C15: an image strictly wider than the slot is drawn with the height of the
\* slot and the width overflows, any other image is drawn with the width of
\* the slot and the height overflows; and an image of the aspect ratio of the
\* slot is drawn with exactly the size of the slot.
C15_CoverRule ==
    fitOut # None =>
        /\ IF SourceWider(fitIn)
           THEN /\ fitOut.drawHeight = FromInt(fitIn.slot.height)
                /\ Gt(fitOut.drawWidth, FromInt(fitIn.slot.width))
           ELSE /\ fitOut.drawWidth = FromInt(fitIn.slot.width)
                /\ (~SameAspect(fitIn) =>
                        Gt(fitOut.drawHeight, FromInt(fitIn.slot.height)))
        /\ SameAspect(fitIn) =>
                /\ fitOut.drawWidth = FromInt(fitIn.slot.width)
                /\ fitOut.drawHeight = FromInt(fitIn.slot.height)

\* ---- C21: the scratch files of concurrent jobs

\* The calls whose engine is running: it reads the frames of the scratch
\* directory and writes output.gif there.
GifInFlight == {j \in GifJobIds : gifJobs[j].pc = "ffmpeg"}

\* C21: two system:generate-hq-gif calls in flight never use the same scratch
\* directory, and the frames of a call in flight are not removed by the
\* cleanup of another call.
C21_ScratchNotShared ==
    /\ \A j, k \in GifInFlight : j # k => gifJobs[j].tempPath # gifJobs[k].tempPath
    /\ \A j \in GifInFlight : Range(gifJobs[j].framePaths) \subseteq tempFiles

\* ---- C29: the numbering of the frames of a GIF

\* The numbers of the frame files a call wrote, in order.
FrameNumbers(j) == [i \in 1..Len(gifJobs[j].framePaths) |-> gifJobs[j].framePaths[i].n]

ValidFrames(j) == {i \in 1..Len(gifJobs[j].frames) : matchesDataUrl(gifJobs[j].frames[i])}

GifEngineInvoked(j) == gifJobs[j].pc = "ffmpeg" \/ gifJobs[j].response \notin {None, [success |-> FALSE, error |-> "No valid frames provided"]}

\* C29: the frame files of a call are frame_0 .. frame_{m-1} for its m valid
\* frames, and the call returns 'No valid frames provided' without running
\* the engine exactly when m = 0.
C29_FramesContiguous ==
    \A j \in GifJobIds :
        gifJobs[j].pc # "idle" =>
            /\ FrameNumbers(j) = [i \in 1..Cardinality(ValidFrames(j)) |-> i - 1]
            /\ (ValidFrames(j) = {}) <=>
                   (gifJobs[j].response = [success |-> FALSE, error |-> "No valid frames provided"])
            /\ (ValidFrames(j) = {}) => ~GifEngineInvoked(j)
            /\ (ValidFrames(j) # {}) => GifEngineInvoked(j)

\* ---- C22: the builder keeps nothing from one build to the next

C23_SameLayer ==
    layers # None =>
        /\ layers.canvas = layers.video
        /\ layers.canvas = layers.sharp

\* ---- C26: a video keeps the slot of its own position

\* The positions in params.videos (from 1) of the videos that pass the
\* validation.
Survivors ==
    {i \in 1..Len(params.videos) :
        /\ params.videos[i].path # ""
        /\ i <= Len(params.frameConfig.slots)
        /\ existsSync(cleanUrl(params.videos[i].path))}

\* The k-th of them.
SurvivorAt(k) == CHOOSE i \in Survivors : Cardinality({j \in Survivors : j < i}) = k - 1

\* C26: the k-th video that survives validation, at position i of
\* params.videos, is scaled, cropped, turned and placed with the geometry of
\* frameConfig.slots[i]; the videos skipped before it change its stream
\* index (k) only.
C26_SlotOfOriginalPosition ==
    validInputs # <<>> =>
        /\ Len(validInputs) = Cardinality(Survivors)
        /\ \A k \in 1..Len(validInputs) :
              LET slot == params.frameConfig.slots[SurvivorAt(k)]
              IN  /\ validInputs[k].slot = slot
                  /\ validInputs[k].path = cleanUrl(params.videos[SurvivorAt(k)].path)
                  /\ validInputs[k].index = k - 1
                  /\ filterGraph # <<>> =>
                        /\ filterGraph[k].inA = InLabel(k)
                        /\ filterGraph[k].out = VLabel(k - 1)
                        /\ filterGraph[k].w = slot.width
                        /\ filterGraph[k].h = slot.height
                        /\ filterGraph[k].rot = rotOf(slot)
                        /\ filterGraph[Len(validInputs) + k].inB = VLabel(k - 1)
                        /\ filterGraph[Len(validInputs) + k].x = finalX(slot)
                        /\ filterGraph[Len(validInputs) + k].y = finalY(slot)

\* The first video is missing: the second and the third are streams 1 and 2
\* and keep the second and the third slot.
C26_Witness ==
    /\ filterGraph # <<>>
    /\ Len(params.videos) = 3
    /\ params.videos[1].path = "gone.webm"
    /\ Len(validInputs) = 2
    /\ validInputs[1].slot = SaveSlotAt(2)
    /\ validInputs[2].slot = SaveSlotAt(3)
    /\ filterGraph[1].inA = InLabel(1)
    /\ filterGraph[1].w = 600
    /\ filterGraph[4].x = 60

\* ---- C28: one photo per slot in the session store

\* No two photos of the list carry the same slotId.
OnePhotoPerSlot(list) ==
    \A i, j \in 1..Len(list) : list[i].slotId = list[j].slotId => i = j

\* The last call was an addPhoto: the slot has exactly the new photo, and the
\* photos of the other slots are as they were.
Retaken ==
    (storeCall # None /\ storeCall.op = "addPhoto") =>
        /\ Len(SelectSeq(photos, LAMBDA p : p.slotId = storeCall.slotId)) = 1
        /\ photos[Len(photos)] =
              [slotId |-> storeCall.slotId, imagePath |-> storeCall.arg, videoPath |-> ""]
        /\ withoutSlot(photos, storeCall.slotId) = withoutSlot(storeCall.before, storeCall.slotId)

\* The last call was startSession or endSession: there is no photo.
EmptiedBySession ==
    (storeCall # None /\ storeCall.op \in {"startSession", "endSession"}) => photos = <<>>

\* The last call was an updatePhoto whose updates carry a slotId.
RenamingUpdate ==
    /\ storeCall # None
    /\ storeCall.op = "updatePhoto"
    /\ "slotId" \in DOMAIN storeCall.arg

\* C28 as stated: after any sequence of startSession, addPhoto, updatePhoto,
\* removePhoto and endSession the store holds at most one photo per slotId;
\* an addPhoto for a slot that has a photo replaces it and leaves the other
\* slots' photos alone; startSession and endSession leave no photo.
C28_OnePhotoPerSlot ==
    /\ OnePhotoPerSlot(photos)
    /\ Retaken
    /\ EmptiedBySession

\* C28, amended: every call other than an updatePhoto whose updates carry a
\* slotId keeps the store at one photo per slotId at most; an addPhoto leaves
\* exactly the new photo for its slot and the other slots' photos alone;
\* startSession and endSession leave no photo.
C28_OnePhotoPerSlotUnlessRenamed ==
    /\ (storeCall # None /\ OnePhotoPerSlot(storeCall.before) /\ ~RenamingUpdate)
           => OnePhotoPerSlot(photos)
    /\ Retaken
    /\ EmptiedBySession

\* A retake: s1 and s2 had a photo each, and s1 was captured again.
C28_Witness ==
    /\ storeCall # None
    /\ storeCall.op = "addPhoto"
    /\ storeCall.slotId = "s1"
    /\ Len(storeCall.before) = 2
    /\ storeCall.before[1] = [slotId |-> "s1", imagePath |-> "shot.jpg", videoPath |-> ""]
    /\ storeCall.before[2].slotId = "s2"
    /\ photos = <<storeCall.before[2],
                  [slotId |-> "s1", imagePath |-> "retake.jpg", videoPath |-> ""]>>

\* ---- C30: the timeout of a session timer

\* C30: a mounted SessionTimer calls onTimeout once at most, whatever ticks
\* and renders follow the timeout; it has no interval, and so calls nothing,
\* while enabled is false; and timeLeft never goes below 0.
C30_TimeoutOnce ==
    /\ timer.timeouts <= 1
    /\ timer.interval => timer.enabled
    /\ timer.timeLeft >= 0

\* ---- C25: the duplicate references of a frame

\* C25: whatever addSlot, updateSlot (with the values the 'Duplicate Of'
\* selector offers), deleteSlot, undo and redo were called, every
\* duplicateOfSlotId that is set names a slot that exists in the same frame,
\* is not the slot itself, and is not itself a duplicate.
C25_DuplicateRefsWellFormed ==
    \A f \in 1..Len(frames) :
        \A k \in 1..Len(frames[f].slots) :
            LET slot == frames[f].slots[k]
            IN  slot.duplicateOfSlotId # 0 =>
                    /\ slot.duplicateOfSlotId # slot.id
                    /\ \E j \in 1..Len(frames[f].slots) :
                          /\ frames[f].slots[j].id = slot.duplicateOfSlotId
                          /\ frames[f].slots[j].duplicateOfSlotId = 0

\* ---- C27: undo and redo of the frame store

MutatingOps == {"addFrame", "updateFrame", "deleteFrame", "addSlot", "updateSlot", "deleteSlot"}

\* The call made n calls ago (0: the last one), when there is one.
CallAgo(n) == storeCalls[Len(storeCalls) - n]

\* C27: an undo right after a mutating operation gives frames the value they
\* had before it, and a redo right after that undo the value they had after
\* it; undo with no history and redo with no future change nothing; a
\* mutating operation leaves no future; the history has 50 entries at most.
C27_UndoRedoExact ==
    /\ (Len(storeCalls) >= 2 /\ CallAgo(0).op = "undo" /\ CallAgo(1).op \in MutatingOps)
           => frames = CallAgo(1).frames
    /\ (Len(storeCalls) >= 3 /\ CallAgo(0).op = "redo" /\ CallAgo(1).op = "undo"
            /\ CallAgo(2).op \in MutatingOps)
           => frames = CallAgo(1).frames
    /\ (Len(storeCalls) >= 1 /\ CallAgo(0).op = "undo" /\ CallAgo(0).history = <<>>)
           => (frames = CallAgo(0).frames /\ history = <<>> /\ future = CallAgo(0).future)
    /\ (Len(storeCalls) >= 1 /\ CallAgo(0).op = "redo" /\ CallAgo(0).future = <<>>)
           => (frames = CallAgo(0).frames /\ history = CallAgo(0).history /\ future = <<>>)
    /\ (Len(storeCalls) >= 1 /\ CallAgo(0).op \in MutatingOps) => future = <<>>
    /\ Len(history) <= 50

====
